---- MODULE Spec2Model ----
(***************************************************************************)
(* The batch operation engine of the booking system: SagaBatchProcessor    *)
(* (app/core/batch_processor.py) and BatchOperationService                 *)
(* (app/services/batch_service.py), over the bookings and accommodations   *)
(* tables (app/models).  A process p is one inbound call; its position is  *)
(* pc[p].  A step is the code between two awaits of the store.             *)
(***************************************************************************)
EXTENDS Integers, Sequences, FiniteSets, TLC

(***************************************************************************)
(* Bounds of the model.                                                    *)
(***************************************************************************)
MaxOps == 3
MaxParallelOps == 3
MaxIds == 2
MaxAssignments == 2

(***************************************************************************)
(* Python's None, per type of the value it stands in for.                  *)
(***************************************************************************)
NoneStr == "None"
NoDate == 0
NoneText == <<>>
NoneState == [none |-> TRUE]
EmptyDict == [k \in {} |-> 0]

(***************************************************************************)
(* Enumerations.  A member is written by its NAME; the database enum       *)
(* labels are the names (alembic migration), `.value` is the lower-case    *)
(* string.                                                                 *)
(***************************************************************************)
BookingStatus == {"PENDING", "CONFIRMED", "CHECKED_IN", "CHECKED_OUT", "CANCELLED"}

BookingStatusValue(m) ==
    CASE m = "PENDING" -> "pending"
      [] m = "CONFIRMED" -> "confirmed"
      [] m = "CHECKED_IN" -> "checked_in"
      [] m = "CHECKED_OUT" -> "checked_out"
      [] m = "CANCELLED" -> "cancelled"

PaymentStatus == {"NOT_PAID", "PARTIAL", "PAID"}

AccommodationStatus == {"AVAILABLE", "OCCUPIED", "MAINTENANCE", "OUT_OF_ORDER"}

AccommodationStatusValue(m) ==
    CASE m = "AVAILABLE" -> "available"
      [] m = "OCCUPIED" -> "occupied"
      [] m = "MAINTENANCE" -> "maintenance"
      [] m = "OUT_OF_ORDER" -> "out_of_order"

AccommodationCondition == {"OK", "MINOR_ISSUE", "CRITICAL"}

AccommodationConditionValue(m) ==
    CASE m = "OK" -> "ok"
      [] m = "MINOR_ISSUE" -> "minor"
      [] m = "CRITICAL" -> "critical"

\* Enum(v): the members whose value is v; empty when Enum(v) raises ValueError.
BookingStatusOf(v) == {m \in BookingStatus : BookingStatusValue(m) = v}
AccommodationStatusOf(v) == {m \in AccommodationStatus : AccommodationStatusValue(m) = v}

\* What an Enum column accepts in an UPDATE: a member, or a string that is one
\* of the labels of the database enum type; any other string is sent as it is
\* and the database rejects the statement.
BookingStatusColumnAccepts(x) == x \in BookingStatus
AccommodationStatusColumnAccepts(x) == x \in AccommodationStatus

BatchOperationType ==
    {"booking_status_update", "booking_cancel", "booking_set_dates",
     "booking_payment_add", "accommodation_status_update", "client_update",
     "inventory_assign", "custom_item_add"}

BookingOperationTypes ==
    {"booking_status_update", "booking_cancel", "booking_set_dates"}

\* _register_default_handlers: the types with a forward and a compensation handler.
operation_handlers ==
    {"booking_status_update", "booking_cancel", "booking_set_dates",
     "accommodation_status_update"}

compensation_handlers ==
    {"booking_status_update", "booking_cancel", "booking_set_dates",
     "accommodation_status_update"}

(***************************************************************************)
(* The store.                                                              *)
(***************************************************************************)
BookingIds == {1, 2}
AccommodationIds == {1}
MissingId == 9
Dates == 1 .. 4

Get(d, k, none) == IF k \in DOMAIN d THEN d[k] ELSE none

Merge(f, r) == [k \in DOMAIN r |-> IF k \in DOMAIN f THEN f[k] ELSE r[k]]

Reverse(s) == [i \in 1 .. Len(s) |-> s[Len(s) + 1 - i]]

\* UPDATE <table> SET fields WHERE id = target_id: no row, no change, no error.
UpdateRow(table, target_id, fields) ==
    IF target_id \in DOMAIN table
    THEN [table EXCEPT ![target_id] = Merge(fields, @)]
    ELSE table

\* date.isoformat(), or None for a NULL date.
IsoFormat(d) == IF d = NoDate THEN <<"None">> ELSE <<"iso", d>>

(***************************************************************************)
(* SagaBatchProcessor: the pure parts.                                     *)
(***************************************************************************)
\* _capture_entity_state: the projection of the target's mutable fields, or {}.
CaptureEntityState(op, b, a) ==
    IF op.operation_type \in BookingOperationTypes /\ op.target_id \in DOMAIN b
    THEN [status |-> BookingStatusValue(b[op.target_id].status),
          comments |-> b[op.target_id].comments,
          check_in_date |-> IsoFormat(b[op.target_id].check_in_date),
          check_out_date |-> IsoFormat(b[op.target_id].check_out_date),
          is_open_dates |-> b[op.target_id].is_open_dates]
    ELSE IF op.operation_type = "accommodation_status_update"
            /\ op.target_id \in DOMAIN a
    THEN [status |-> AccommodationStatusValue(a[op.target_id].status),
          condition |-> AccommodationConditionValue(a[op.target_id].condition)]
    ELSE EmptyDict

\* _validate_entity_exists
ValidateEntityExists(op, b, a) ==
    IF op.operation_type \in BookingOperationTypes
    THEN op.target_id \in DOMAIN b
    ELSE IF op.operation_type = "accommodation_status_update"
    THEN op.target_id \in DOMAIN a
    ELSE FALSE

\* Variant of ValidationErrorOf without the check of the parameters: C6 must
\* not hold of it.
ValidationErrorOfIgnoringParameters(op, b, a) ==
    IF ~ValidateEntityExists(op, b, a) THEN "ENTITY_NOT_FOUND"
    ELSE NoneStr

\* _validate_batch: the error of one operation, "None" when it passes.
ValidationErrorOf(op, b, a) ==
    IF DOMAIN op.parameters = {} THEN "MISSING_PARAMETERS"
    ELSE IF ~ValidateEntityExists(op, b, a) THEN "ENTITY_NOT_FOUND"
    ELSE NoneStr

\* _validate_batch: the errors, in list order.
ValidateBatch(request, b, a) ==
    LET ops == request.operations
        bad == {i \in 1 .. Len(ops) : ValidationErrorOf(ops[i], b, a) # NoneStr}
        Pick(i) == [operation_id |-> i, target_id |-> ops[i].target_id,
                    error_code |-> ValidationErrorOf(ops[i], b, a)]
    IN  SelectSeq([i \in 1 .. Len(ops) |-> Pick(i)],
                  LAMBDA e : e.operation_id \in bad)

\* The outcome of a handler: the exception it raised ("None" for none) and the store
\* it leaves.  A call of the store may fail (fault); whether later calls on the
\* same session then fail too is left open, each may fail or not.
Returned(b, a) == [exc |-> NoneStr, text |-> NoneStr, bookings |-> b, accommodations |-> a]
Raised(kind, text, b, a) == [exc |-> kind, text |-> text, bookings |-> b, accommodations |-> a]

\* _handle_booking_status_update
HandleBookingStatusUpdate(op, dry_run, fault, b, a) ==
    LET v == Get(op.parameters, "new_status", NoneStr)
        ms == BookingStatusOf(v)
    IN  IF ms = {} THEN Raised("ValueError", "not a valid BookingStatus", b, a)
        ELSE IF dry_run THEN Returned(b, a)
        ELSE IF fault THEN Raised("DBAPIError", "store error", b, a)
        ELSE Returned(UpdateRow(b, op.target_id, [status |-> CHOOSE m \in ms : TRUE]), a)

\* The comments a cancellation writes: f"Cancelled: {cancellation_reason}".
CancelledComment(old, reason) == <<"Cancelled: ", reason>>

\* Variant of HandleBookingCancel that writes in a dry run too: C1 must not
\* hold of it.
HandleBookingCancelIgnoringDryRun(op, dry_run, fault, b, a) ==
    LET reason == Get(op.parameters, "cancellation_reason", NoneStr)
    IN  IF fault THEN Raised("DBAPIError", "store error", b, a)
        ELSE Returned(
               UpdateRow(b, op.target_id,
                   [status |-> "CANCELLED",
                    comments |-> CancelledComment(NoneText, reason)]),
               a)

\* _handle_booking_cancel
HandleBookingCancel(op, dry_run, fault, b, a) ==
    LET reason == Get(op.parameters, "cancellation_reason", NoneStr)
    IN  IF dry_run THEN Returned(b, a)
        ELSE IF fault THEN Raised("DBAPIError", "store error", b, a)
        ELSE Returned(
               UpdateRow(b, op.target_id,
                   [status |-> "CANCELLED",
                    comments |->
                        CancelledComment(
                            IF op.target_id \in DOMAIN b
                            THEN b[op.target_id].comments ELSE NoneText,
                            reason)]),
               a)

\* _handle_booking_set_dates
HandleBookingSetDates(op, dry_run, fault, b, a) ==
    IF dry_run THEN Returned(b, a)
    ELSE IF fault THEN Raised("DBAPIError", "store error", b, a)
    ELSE Returned(
           UpdateRow(b, op.target_id,
               [check_in_date |-> Get(op.parameters, "check_in_date", NoDate),
                check_out_date |-> Get(op.parameters, "check_out_date", NoDate),
                is_open_dates |-> FALSE]),
           a)

\* _handle_accommodation_status_update
HandleAccommodationStatusUpdate(op, dry_run, fault, b, a) ==
    LET v == Get(op.parameters, "new_status", NoneStr)
        ms == AccommodationStatusOf(v)
    IN  IF ms = {} THEN Raised("ValueError", "not a valid AccommodationStatus", b, a)
        ELSE IF dry_run THEN Returned(b, a)
        ELSE IF fault THEN Raised("DBAPIError", "store error", b, a)
        ELSE Returned(b, UpdateRow(a, op.target_id, [status |-> CHOOSE m \in ms : TRUE]))

\* handler(context): dispatch on the operation type.
Handle(op, dry_run, fault, b, a) ==
    CASE op.operation_type = "booking_status_update" ->
           HandleBookingStatusUpdate(op, dry_run, fault, b, a)
      [] op.operation_type = "booking_cancel" ->
           HandleBookingCancel(op, dry_run, fault, b, a)
      [] op.operation_type = "booking_set_dates" ->
           HandleBookingSetDates(op, dry_run, fault, b, a)
      [] op.operation_type = "accommodation_status_update" ->
           HandleAccommodationStatusUpdate(op, dry_run, fault, b, a)

\* f"compensate_{operation_type.value}" and its inverse, replace("compensate_", "").
CompensationType(t) == <<"compensate_", t>>
OriginalOperationType(ct) == ct[2]

\* _compensate_booking_status_update
CompensateBookingStatusUpdate(data, fault, b, a) ==
    IF "status" \notin DOMAIN data.before_state
    THEN Raised("KeyError", "status", b, a)
    ELSE IF ~BookingStatusColumnAccepts(data.before_state["status"])
    THEN Raised("DBAPIError", "invalid input value for enum bookingstatus", b, a)
    ELSE IF fault THEN Raised("DBAPIError", "store error", b, a)
    ELSE Returned(UpdateRow(b, data.target_id, [status |-> data.before_state["status"]]), a)

\* _compensate_booking_cancel
CompensateBookingCancel(data, fault, b, a) ==
    IF "status" \notin DOMAIN data.before_state
    THEN Raised("KeyError", "status", b, a)
    ELSE IF ~BookingStatusColumnAccepts(data.before_state["status"])
    THEN Raised("DBAPIError", "invalid input value for enum bookingstatus", b, a)
    ELSE IF fault THEN Raised("DBAPIError", "store error", b, a)
    ELSE Returned(
           UpdateRow(b, data.target_id,
               [status |-> data.before_state["status"],
                comments |-> Get(data.before_state, "comments", NoneText)]),
           a)

\* _compensate_booking_set_dates
CompensateBookingSetDates(data, fault, b, a) ==
    IF fault THEN Raised("DBAPIError", "store error", b, a)
    ELSE Returned(
           UpdateRow(b, data.target_id,
               [check_in_date |-> NoDate, check_out_date |-> NoDate,
                is_open_dates |-> TRUE]),
           a)

\* _compensate_accommodation_status_update
CompensateAccommodationStatusUpdate(data, fault, b, a) ==
    IF "status" \notin DOMAIN data.before_state
    THEN Raised("KeyError", "status", b, a)
    ELSE IF ~AccommodationStatusColumnAccepts(data.before_state["status"])
    THEN Raised("DBAPIError", "invalid input value for enum accommodationstatus", b, a)
    ELSE IF fault THEN Raised("DBAPIError", "store error", b, a)
    ELSE Returned(b, UpdateRow(a, data.target_id, [status |-> data.before_state["status"]]))

\* _execute_compensation_operation
ExecuteCompensationOperation(comp, fault, b, a) ==
    LET t == OriginalOperationType(comp.compensation_type)
        data == comp.compensation_data
    IN  IF t \notin BatchOperationType
        THEN Raised("ValueError", "not a valid BatchOperationType", b, a)
        ELSE IF t \notin compensation_handlers
        THEN Raised("CompensationError", "No compensation handler", b, a)
        ELSE CASE t = "booking_status_update" ->
                    CompensateBookingStatusUpdate(data, fault, b, a)
               [] t = "booking_cancel" ->
                    CompensateBookingCancel(data, fault, b, a)
               [] t = "booking_set_dates" ->
                    CompensateBookingSetDates(data, fault, b, a)
               [] t = "accommodation_status_update" ->
                    CompensateAccommodationStatusUpdate(data, fault, b, a)

(***************************************************************************)
(* State.                                                                  *)
(***************************************************************************)
VARIABLES
    bookings,           \* the bookings table: id -> row
    accommodations,     \* the accommodations table: id -> row
    call,               \* call[p]: the inbound call process p serves
    pc,                 \* pc[p]: where p stands in its call
    batch_request,      \* batch_request[p]: the BatchRequest p executes
    tasks,              \* tasks[p][i]: _execute_single_operation of operation i
    operation_results,  \* operation_results[p]: the results list built so far
    saga_transaction,   \* saga_transaction[p]: p's SagaTransaction
    job_result,         \* job_result[p]: the BatchJobResult returned, or None
    raised,             \* raised[p]: the exception the call ended with, or None
    completion_order,   \* history: p's successful operations, in the order they ended
    pre                 \* history: the store when the calls were submitted

vars == <<bookings, accommodations, call, pc, batch_request, tasks,
          operation_results, saga_transaction, job_result, raised,
          completion_order, pre>>

Procs == {1, 2}
SemaphoreLimit == 5
NoOperation == 0

\* BatchOperationItem(target_id, operation_type, parameters)
BatchOperationItem(operation_type, target_id, parameters) ==
    [operation_type |-> operation_type, target_id |-> target_id,
     parameters |-> parameters]

NoRequest == [operations |-> <<>>, dry_run |-> FALSE, fail_fast |-> FALSE,
              parallel_execution |-> FALSE, enable_compensation |-> TRUE]

NoException == [kind |-> NoneStr]

\* SagaTransaction(job_id=..., started_at=...)
NewSagaTransaction ==
    [status |-> "pending", completed_operations |-> <<>>,
     failed_operation_id |-> NoOperation, compensation_operations |-> <<>>,
     compensation_status |-> "pending", completed_at |-> FALSE, persisted |-> 0]

NewTask == [pos |-> "pending", before_state |-> NoneState, result |-> NoneState,
            calls |-> 0, stored_status |-> NoneStr]

\* The status the bookings table holds for the target of a booking operation
\* (kept in the task at the moment its handler runs, for the properties).
StoredStatus(op, b) ==
    IF op.operation_type \in BookingOperationTypes /\ op.target_id \in DOMAIN b
    THEN b[op.target_id].status
    ELSE NoneStr

\* BatchOperationResult(..., success=True, ...)
SuccessResult(i, op, before_state, after_state) ==
    [operation_id |-> i, target_id |-> op.target_id,
     operation_type |-> op.operation_type, status |-> "completed", success |-> TRUE,
     error_message |-> NoneStr, error_code |-> NoneStr,
     before_state |-> before_state, after_state |-> after_state]

\* Variant of FailedResult that drops the kind of the exception: C7 must not
\* hold of it.
FailedResultWithoutErrorCode(i, op, kind, text) ==
    [operation_id |-> i, target_id |-> op.target_id,
     operation_type |-> op.operation_type, status |-> "failed", success |-> FALSE,
     error_message |-> text, error_code |-> NoneStr,
     before_state |-> NoneState, after_state |-> NoneState]

\* BatchOperationResult(..., success=False, error_message=str(e),
\* error_code=type(e).__name__)
FailedResult(i, op, kind, text) ==
    [operation_id |-> i, target_id |-> op.target_id,
     operation_type |-> op.operation_type, status |-> "failed", success |-> FALSE,
     error_message |-> text, error_code |-> kind,
     before_state |-> NoneState, after_state |-> NoneState]

Ops(p) == batch_request[p].operations
Sequential(p) == pc[p] = "dry_run" \/ ~batch_request[p].parallel_execution

\* Variant of InFlight that counts no task as holding the semaphore: C24 must
\* not hold of it.
InFlightNeverCounted(p) == Cardinality({i \in {} : tasks[p][i].pos = "captured"})

\* The tasks inside _execute_single_operation (in parallel execution: holding
\* the semaphore).
InFlight(p) == Cardinality({i \in 1 .. Len(Ops(p)) : tasks[p][i].pos = "captured"})
AnyFailed(results) == \E k \in 1 .. Len(results) : ~results[k].success
CountSuccess(results) == Cardinality({k \in 1 .. Len(results) : results[k].success})
CountFailed(results) == Cardinality({k \in 1 .. Len(results) : ~results[k].success})

\* Variant of ExecuteBatchEnter in which generic validation comes before the
\* dry-run branch: C18 must not hold of it.
ExecuteBatchEnterValidatingDryRun(p) ==
    /\ pc[p] = "execute_batch"
    /\ tasks' = [tasks EXCEPT ![p] = [i \in 1 .. Len(Ops(p)) |-> NewTask]]
    /\ LET errors == ValidateBatch(batch_request[p], bookings, accommodations)
       IN  IF errors # <<>>
           THEN /\ pc' = [pc EXCEPT ![p] = "raised"]
                /\ raised' = [raised EXCEPT ![p] =
                       [kind |-> "BatchProcessorError",
                        text |-> "Batch validation failed", errors |-> errors]]
           ELSE /\ pc' = [pc EXCEPT ![p] =
                       IF batch_request[p].dry_run THEN "dry_run" ELSE "executing"]
                /\ UNCHANGED raised
    /\ UNCHANGED <<bookings, accommodations, call, batch_request, operation_results,
                   saga_transaction, job_result, completion_order, pre>>

(***************************************************************************)
(* execute_batch, lines 97-110: the SagaTransaction, the dry-run branch,   *)
(* generic validation.                                                     *)
(***************************************************************************)
ExecuteBatchEnter(p) ==
    /\ pc[p] = "execute_batch"
    /\ tasks' = [tasks EXCEPT ![p] = [i \in 1 .. Len(Ops(p)) |-> NewTask]]
    /\ IF batch_request[p].dry_run
       THEN /\ pc' = [pc EXCEPT ![p] = "dry_run"]
            /\ UNCHANGED raised
       ELSE LET errors == ValidateBatch(batch_request[p], bookings, accommodations)
            IN  IF errors # <<>>
                THEN /\ pc' = [pc EXCEPT ![p] = "raised"]
                     /\ raised' = [raised EXCEPT ![p] =
                            [kind |-> "BatchProcessorError",
                             text |-> "Batch validation failed", errors |-> errors]]
                ELSE /\ pc' = [pc EXCEPT ![p] = "executing"]
                     /\ UNCHANGED raised
    /\ UNCHANGED <<bookings, accommodations, call, batch_request, operation_results,
                   saga_transaction, job_result, completion_order, pre>>

(***************************************************************************)
(* _execute_single_operation for operation i of p, in two steps: the       *)
(* handler lookup and the capture of before_state; then the handler with   *)
(* the capture of after_state and the result.  after_state is read in the  *)
(* step of the write: no decision of the engine reads it.                  *)
(***************************************************************************)
\* Variant of MayStart whose sequential loop has no fail_fast break: C4 must
\* not hold of it.
MayStartWithoutBreak(p, i) ==
    IF Sequential(p)
    THEN /\ i = Len(operation_results[p]) + 1
         /\ InFlight(p) = 0
    ELSE InFlight(p) < SemaphoreLimit

\* Whether operation i may enter _execute_single_operation now: the next one of
\* the loop (_execute_dry_run, _execute_operations_sequential with its fail_fast
\* break), or any task that holds the semaphore (_execute_operations_parallel).
MayStart(p, i) ==
    IF Sequential(p)
    THEN /\ i = Len(operation_results[p]) + 1
         /\ InFlight(p) = 0
         /\ ~(pc[p] = "executing" /\ batch_request[p].fail_fast
              /\ AnyFailed(operation_results[p]))
    ELSE InFlight(p) < SemaphoreLimit

\* The operation's result is there: the loop appends it and updates the saga
\* (sequential), or gather keeps it (parallel).  t is the task as it ends.
Complete(p, i, t, result) ==
    /\ tasks' = [tasks EXCEPT ![p][i] = [t EXCEPT !.pos = "done", !.result = result]]
    /\ completion_order' = [completion_order EXCEPT ![p] =
           IF result.success THEN Append(@, i) ELSE @]
    /\ IF Sequential(p)
       THEN operation_results' = [operation_results EXCEPT ![p] = Append(@, result)]
       ELSE UNCHANGED operation_results
    /\ IF pc[p] = "executing" /\ Sequential(p)
       THEN saga_transaction' = [saga_transaction EXCEPT ![p] =
                IF result.success
                THEN [@ EXCEPT !.completed_operations = Append(@, i)]
                ELSE [@ EXCEPT !.failed_operation_id = i]]
       ELSE UNCHANGED saga_transaction

OpBegin(p, i) ==
    /\ pc[p] \in {"dry_run", "executing"}
    /\ tasks[p][i].pos = "pending"
    /\ MayStart(p, i)
    /\ IF Ops(p)[i].operation_type \notin operation_handlers
       THEN Complete(p, i, tasks[p][i],
                     FailedResult(i, Ops(p)[i], "BatchProcessorError",
                                  "No handler found for operation type"))
       ELSE /\ tasks' = [tasks EXCEPT ![p][i] =
                   [@ EXCEPT !.pos = "captured",
                             !.before_state =
                                 CaptureEntityState(Ops(p)[i], bookings, accommodations)]]
            /\ UNCHANGED <<operation_results, saga_transaction, completion_order>>
    /\ UNCHANGED <<bookings, accommodations, call, pc, batch_request, job_result,
                   raised, pre>>

OpHandler(p, i) ==
    /\ pc[p] \in {"dry_run", "executing"}
    /\ tasks[p][i].pos = "captured"
    /\ \E fault \in BOOLEAN :
         LET out == Handle(Ops(p)[i], pc[p] = "dry_run", fault, bookings, accommodations)
             called == [tasks[p][i] EXCEPT
                           !.calls = @ + 1,
                           !.stored_status = StoredStatus(Ops(p)[i], bookings)]
         IN  /\ bookings' = out.bookings
             /\ accommodations' = out.accommodations
             /\ IF out.exc # NoneStr
                THEN Complete(p, i, called,
                              FailedResult(i, Ops(p)[i], out.exc, out.text))
                ELSE Complete(p, i, called,
                         SuccessResult(i, Ops(p)[i], tasks[p][i].before_state,
                             IF pc[p] = "dry_run" THEN NoneState
                             ELSE CaptureEntityState(Ops(p)[i], out.bookings,
                                                     out.accommodations)))
    /\ UNCHANGED <<call, pc, batch_request, job_result, raised, pre>>

(***************************************************************************)
(* execute_batch, lines 127-208: the tally, the compensation pass, the     *)
(* finally block and the BatchJobResult.                                   *)
(***************************************************************************)
\* CompensationOperation(...) of one successful result
CompensationOperationOf(result) ==
    [original_operation_id |-> result.operation_id,
     compensation_type |-> CompensationType(result.operation_type),
     compensation_data |-> [target_id |-> result.target_id,
                            before_state |-> result.before_state,
                            after_state |-> result.after_state],
     status |-> "pending", error_message |-> NoneStr, attempts |-> 0]

\* _execute_compensation, lines 361-378: the successful results, reversed.
CompensationOperations(results) ==
    LET successful_operations == SelectSeq(results, LAMBDA r : r.success)
        reversed == Reverse(successful_operations)
    IN  [j \in 1 .. Len(reversed) |-> CompensationOperationOf(reversed[j])]

\* _generate_failure_summary: the failures per error code.
GenerateFailureSummary(results) ==
    LET failed_results == SelectSeq(results, LAMBDA r : ~r.success)
        codes == {failed_results[k].error_code : k \in 1 .. Len(failed_results)}
    IN  [total |-> Len(failed_results),
         breakdown |-> [c \in codes |->
             Cardinality({k \in 1 .. Len(failed_results) :
                             failed_results[k].error_code = c})]]

\* _generate_compensation_summary
GenerateCompensationSummary(saga) ==
    LET comps == saga.compensation_operations
    IN  IF comps = <<>> THEN [required |-> FALSE, successful |-> 0, failed |-> 0]
        ELSE [required |-> TRUE,
              successful |-> Cardinality({j \in 1 .. Len(comps) :
                                            comps[j].status = "completed"}),
              failed |-> Cardinality({j \in 1 .. Len(comps) :
                                        comps[j].status = "failed"})]

\* Variant of JobStatus in which any failed operation makes the job FAILED:
\* C13 must not hold of it.
JobStatusFailedOnAnyFailure(successful_operations, failed_operations) ==
    IF failed_operations = 0 THEN "completed" ELSE "failed"

\* BatchJobStatus of the result, lines 181-187.
JobStatus(successful_operations, failed_operations) ==
    IF failed_operations = 0 THEN "completed"
    ELSE IF successful_operations = 0 THEN "failed"
    ELSE "completed"

\* BatchJobResult(...), lines 178-206.
BatchJobResult(request, results, saga) ==
    [status |-> JobStatus(CountSuccess(results), CountFailed(results)),
     total_operations |-> Len(request.operations),
     successful_operations |-> CountSuccess(results),
     failed_operations |-> CountFailed(results),
     compensated_operations |-> Len(saga.compensation_operations),
     has_failures |-> CountFailed(results) > 0,
     failure_summary |-> IF CountFailed(results) > 0
                         THEN GenerateFailureSummary(results) ELSE NoneState,
     compensation_summary |-> GenerateCompensationSummary(saga),
     dry_run |-> request.dry_run]

\* The finally block (completed_at, _persist_saga_transaction) and the return.
ReturnJobResult(p, results, saga) ==
    /\ saga_transaction' = [saga_transaction EXCEPT ![p] =
           [saga EXCEPT !.completed_at = TRUE, !.persisted = @ + 1]]
    /\ operation_results' = [operation_results EXCEPT ![p] = results]
    /\ job_result' = [job_result EXCEPT ![p] =
           BatchJobResult(batch_request[p], results, saga)]
    /\ pc' = [pc EXCEPT ![p] = "returned"]

\* Variant of ExecutionEnded whose sequential loop may end after any failed
\* result, with or without fail_fast: C21 must not hold of it.
ExecutionEndedOnAnyFailure(p) ==
    IF Sequential(p)
    THEN /\ InFlight(p) = 0
         /\ \/ Len(operation_results[p]) = Len(Ops(p))
            \/ AnyFailed(operation_results[p])
    ELSE \A i \in 1 .. Len(Ops(p)) : tasks[p][i].pos = "done"

\* The loop of _execute_operations_sequential has ended, or gather has returned.
ExecutionEnded(p) ==
    IF Sequential(p)
    THEN /\ InFlight(p) = 0
         /\ \/ Len(operation_results[p]) = Len(Ops(p))
            \/ batch_request[p].fail_fast /\ AnyFailed(operation_results[p])
    ELSE \A i \in 1 .. Len(Ops(p)) : tasks[p][i].pos = "done"

\* The results list execute_batch holds: the loop's, or gather's in list order.
GatheredResults(p) ==
    IF Sequential(p) THEN operation_results[p]
    ELSE [i \in 1 .. Len(Ops(p)) |-> tasks[p][i].result]

\* _execute_operations_parallel, lines 262-279: the successes, in list order.
GatheredSaga(p) ==
    IF Sequential(p) THEN saga_transaction[p]
    ELSE LET succ == SelectSeq(GatheredResults(p), LAMBDA r : r.success)
         IN  [saga_transaction[p] EXCEPT !.completed_operations =
                 @ \o [k \in 1 .. Len(succ) |-> succ[k].operation_id]]

Tally(p) ==
    /\ pc[p] = "executing"
    /\ ExecutionEnded(p)
    /\ LET results == GatheredResults(p)
           saga == GatheredSaga(p)
       IN  IF batch_request[p].fail_fast /\ CountFailed(results) > 0
           THEN LET comps == CompensationOperations(results)
                IN  IF comps = <<>>
                    THEN ReturnJobResult(p, results,
                             [saga EXCEPT !.compensation_status = "completed",
                                          !.status = "failed"])
                    ELSE /\ saga_transaction' = [saga_transaction EXCEPT ![p] =
                                [saga EXCEPT !.compensation_operations = comps]]
                         /\ operation_results' =
                                [operation_results EXCEPT ![p] = results]
                         /\ pc' = [pc EXCEPT ![p] = "compensating"]
                         /\ UNCHANGED job_result
           ELSE ReturnJobResult(p, results,
                    [saga EXCEPT !.status =
                        IF CountFailed(results) = 0 THEN "completed"
                        ELSE "partially_completed"])
    /\ UNCHANGED <<bookings, accommodations, call, batch_request, tasks, raised,
                   completion_order, pre>>

\* Variant of CompensationPassEnds in which an exception of one compensation
\* operation leaves the loop: C8 must not hold of it.
CompensationPassEndsOnException(comps, j, exc) ==
    j = Len(comps) \/ exc # NoneStr

\* _execute_compensation, lines 379-391: the for loop ends after the last
\* compensation operation; the exception of one is caught in the loop body and
\* does not end the loop.
CompensationPassEnds(comps, j, exc) == j = Len(comps)

\* _execute_compensation, lines 379-391: the next compensation operation; after
\* the last one the pass ends and execute_batch returns.
CompensateOne(p) ==
    /\ pc[p] = "compensating"
    /\ LET comps == saga_transaction[p].compensation_operations
           j == CHOOSE k \in 1 .. Len(comps) :
                    /\ comps[k].status = "pending"
                    /\ \A l \in 1 .. k - 1 : comps[l].status # "pending"
       IN  \E fault \in BOOLEAN :
             LET out == ExecuteCompensationOperation(comps[j], fault, bookings,
                                                     accommodations)
                 done == [comps[j] EXCEPT
                             !.status = IF out.exc = NoneStr THEN "completed"
                                        ELSE "failed",
                             !.error_message = out.text,
                             !.attempts = @ + 1]
                 saga == [saga_transaction[p] EXCEPT
                             !.compensation_operations[j] = done]
             IN  /\ bookings' = out.bookings
                 /\ accommodations' = out.accommodations
                 /\ IF CompensationPassEnds(comps, j, out.exc)
                    THEN ReturnJobResult(p, operation_results[p],
                             [saga EXCEPT !.compensation_status = "completed",
                                          !.status = "failed"])
                    ELSE /\ saga_transaction' =
                                [saga_transaction EXCEPT ![p] = saga]
                         /\ UNCHANGED <<operation_results, job_result, pc>>
    /\ UNCHANGED <<call, batch_request, tasks, raised, completion_order, pre>>

\* _execute_dry_run, lines 713-731: the BatchJobResult of a dry run.
DryRunJobResult(request, results) ==
    [status |-> "completed",
     total_operations |-> Len(request.operations),
     successful_operations |-> Len(results),
     failed_operations |-> 0,
     compensated_operations |-> 0,
     has_failures |-> FALSE,
     failure_summary |-> NoneState,
     compensation_summary |-> NoneState,
     dry_run |-> TRUE]

DryRunReturn(p) ==
    /\ pc[p] = "dry_run"
    /\ InFlight(p) = 0
    /\ Len(operation_results[p]) = Len(Ops(p))
    /\ job_result' = [job_result EXCEPT ![p] =
           DryRunJobResult(batch_request[p], operation_results[p])]
    /\ pc' = [pc EXCEPT ![p] = "returned"]
    /\ UNCHANGED <<bookings, accommodations, call, batch_request, tasks,
                   operation_results, saga_transaction, raised, completion_order, pre>>

\* execute_batch, line 112: operation_results is bound to [] before the try
\* block and is rebound only by the return of _execute_operations_sequential
\* or _execute_operations_parallel (lines 118-126).  While the executor has
\* not returned, the results it has collected are in its own local list.
OperationResultsBeforeExecutorReturns == <<>>

\* execute_batch, lines 149-170 and 172-175: an exception other than those the
\* single-operation boundary catches (MemoryError, RecursionError, a defect in
\* the loop itself) leaves _execute_operations_sequential between two
\* operations, or _execute_operations_parallel after gather.  The except
\* branch runs _execute_compensation over execute_batch's operation_results
\* when enable_compensation is set, marks the saga FAILED and raises
\* BatchProcessorError; the finally block stamps and persists the saga.
ExecutionRaises(p) ==
    /\ pc[p] = "executing"
    /\ IF Sequential(p) THEN InFlight(p) = 0
       ELSE \A i \in 1 .. Len(Ops(p)) : tasks[p][i].pos = "done"
    /\ LET saga == GatheredSaga(p)
           compensated ==
               IF batch_request[p].enable_compensation
               THEN [saga EXCEPT
                        !.compensation_operations =
                            CompensationOperations(OperationResultsBeforeExecutorReturns),
                        !.compensation_status = "completed"]
               ELSE saga
       IN  saga_transaction' = [saga_transaction EXCEPT ![p] =
               [compensated EXCEPT !.status = "failed",
                                   !.completed_at = TRUE,
                                   !.persisted = @ + 1]]
    /\ raised' = [raised EXCEPT ![p] =
           [kind |-> "BatchProcessorError", text |-> "Batch execution failed",
            errors |-> <<>>]]
    /\ pc' = [pc EXCEPT ![p] = "raised"]
    /\ UNCHANGED <<bookings, accommodations, call, batch_request, tasks,
                   operation_results, job_result, completion_order, pre>>

(***************************************************************************)
(* BatchOperationService: domain validation, the BatchRequest, the call of *)
(* the processor.                                                          *)
(***************************************************************************)
\* Variant of valid_transitions in which CHECKED_OUT is not terminal: C5 must
\* not hold of it.
valid_transitions_from_checked_out(current_status) ==
    CASE current_status = "PENDING" -> {"CONFIRMED", "CANCELLED"}
      [] current_status = "CONFIRMED" -> {"CHECKED_IN", "CANCELLED"}
      [] current_status = "CHECKED_IN" -> {"CHECKED_OUT"}
      [] current_status = "CHECKED_OUT" -> {"CANCELLED"}
      [] current_status = "CANCELLED" -> {}
      [] OTHER -> {}

\* _is_valid_status_transition: valid_transitions.get(current_status, []).
valid_transitions(current_status) ==
    CASE current_status = "PENDING" -> {"CONFIRMED", "CANCELLED"}
      [] current_status = "CONFIRMED" -> {"CHECKED_IN", "CANCELLED"}
      [] current_status = "CHECKED_IN" -> {"CHECKED_OUT"}
      [] current_status = "CHECKED_OUT" -> {}
      [] current_status = "CANCELLED" -> {}
      [] OTHER -> {}

IsValidStatusTransition(current_status, new_status) ==
    new_status \in valid_transitions(current_status)

Range(seq) == {seq[k] : k \in 1 .. Len(seq)}

\* select(Booking).where(Booking.id.in_(booking_ids)): the ids found.
FoundBookings(booking_ids, b) == Range(booking_ids) \cap DOMAIN b

\* Variant of ValidateBookingsForStatusUpdate that checks only that the ids
\* exist: C22 must not hold of it.
ValidateBookingsForStatusUpdateIdsOnly(booking_ids, new_status, b) ==
    {[booking_id |-> id, error |-> "not found"] :
        id \in Range(booking_ids) \ FoundBookings(booking_ids, b)}

\* _validate_bookings_for_status_update: one error per missing id and one per
\* found booking whose transition is not valid (the order is the store's).
ValidateBookingsForStatusUpdate(booking_ids, new_status, b) ==
    {[booking_id |-> id, error |-> "not found"] :
        id \in Range(booking_ids) \ FoundBookings(booking_ids, b)}
    \cup
    {[booking_id |-> id, error |-> "invalid status transition"] :
        id \in {f \in FoundBookings(booking_ids, b) :
                   ~IsValidStatusTransition(b[f].status, new_status)}}

\* Variant of NotCancellable that lets a CHECKED_OUT booking through: C9 must
\* not hold of it.
NotCancellableOnlyCancelled == {"CANCELLED"}

\* The statuses _validate_bookings_for_cancellation refuses.
NotCancellable == {"CANCELLED", "CHECKED_OUT"}

\* _validate_bookings_for_cancellation
ValidateBookingsForCancellation(booking_ids, b) ==
    {[booking_id |-> id, error |-> "not found"] :
        id \in Range(booking_ids) \ FoundBookings(booking_ids, b)}
    \cup
    {[booking_id |-> id, error |-> "cannot be cancelled"] :
        id \in {f \in FoundBookings(booking_ids, b) : b[f].status \in NotCancellable}}

\* raise HTTPException(400, f"Validation errors: {validation_errors}")
RejectCall(p, validation_errors) ==
    /\ pc' = [pc EXCEPT ![p] = "raised"]
    /\ raised' = [raised EXCEPT ![p] =
           [kind |-> "HTTPException", text |-> "Validation errors",
            errors |-> validation_errors]]
    /\ UNCHANGED batch_request

\* return await self.processor.execute_batch(batch_request, user_id)
CallProcessor(p, request) ==
    /\ pc' = [pc EXCEPT ![p] = "execute_batch"]
    /\ batch_request' = [batch_request EXCEPT ![p] = request]
    /\ UNCHANGED raised

\* bulk_update_booking_status, lines 51-73: the BatchRequest.
StatusUpdateRequest(booking_ids, new_status, dry_run) ==
    [operations |->
        [k \in 1 .. Len(booking_ids) |->
            BatchOperationItem("booking_status_update", booking_ids[k],
                [new_status |-> BookingStatusValue(new_status),
                 reason |-> NoneStr, notify_clients |-> FALSE])],
     dry_run |-> dry_run, fail_fast |-> TRUE, parallel_execution |-> FALSE,
     enable_compensation |-> TRUE]

\* bulk_update_booking_status
BulkUpdateBookingStatus(p) ==
    /\ pc[p] = "service"
    /\ call[p].kind = "bulk_update_booking_status"
    /\ LET validation_errors ==
               ValidateBookingsForStatusUpdate(call[p].booking_ids,
                                               call[p].new_status, bookings)
       IN  IF validation_errors # {}
           THEN RejectCall(p, validation_errors)
           ELSE CallProcessor(p, StatusUpdateRequest(call[p].booking_ids,
                                     call[p].new_status, call[p].dry_run))
    /\ UNCHANGED <<bookings, accommodations, call, tasks, operation_results,
                   saga_transaction, job_result, completion_order, pre>>

\* bulk_cancel_bookings, lines 97-119: the BatchRequest.
CancelRequest(booking_ids, cancellation_reason, dry_run) ==
    [operations |->
        [k \in 1 .. Len(booking_ids) |->
            BatchOperationItem("booking_cancel", booking_ids[k],
                [cancellation_reason |-> cancellation_reason,
                 refund_amount |-> NoneStr, notify_clients |-> TRUE])],
     dry_run |-> dry_run, fail_fast |-> FALSE, parallel_execution |-> FALSE,
     enable_compensation |-> TRUE]

\* bulk_cancel_bookings
BulkCancelBookings(p) ==
    /\ pc[p] = "service"
    /\ call[p].kind = "bulk_cancel_bookings"
    /\ LET validation_errors ==
               ValidateBookingsForCancellation(call[p].booking_ids, bookings)
       IN  IF validation_errors # {}
           THEN RejectCall(p, validation_errors)
           ELSE CallProcessor(p, CancelRequest(call[p].booking_ids,
                                     call[p].cancellation_reason, call[p].dry_run))
    /\ UNCHANGED <<bookings, accommodations, call, tasks, operation_results,
                   saga_transaction, job_result, completion_order, pre>>

\* Optional[int] = None: no booking to exclude, no accommodation named.
NoId == 0

\* `not Booking.is_open_dates` in the conditions of check_availability: Python's
\* `not` applied to the mapped column attribute.  The attribute is an object
\* without __bool__, hence truthy, and the condition is the constant False,
\* which and_() turns into WHERE false.
NotBookingIsOpenDates == FALSE

\* BookingService.check_availability: count(Booking.id) over the conditions
\* is 0.  A comparison with a NULL date selects no row.
CheckAvailability(accommodation_id, check_in, check_out, exclude_booking_id, b) ==
    LET conflicting ==
            {id \in DOMAIN b :
                /\ b[id].accommodation_id = accommodation_id
                /\ NotBookingIsOpenDates
                /\ b[id].status \in {"CONFIRMED", "CHECKED_IN"}
                /\ b[id].check_in_date # NoDate /\ b[id].check_in_date < check_out
                /\ b[id].check_out_date # NoDate /\ b[id].check_out_date > check_in
                /\ (exclude_booking_id # NoId => id # exclude_booking_id)}
    IN  Cardinality(conflicting) = 0

\* _check_accommodation_availability
CheckAccommodationAvailability(accommodation_id, check_in_date, check_out_date, exclude_booking_id, b) ==
    CheckAvailability(accommodation_id, check_in_date, check_out_date,
                      exclude_booking_id, b)

\* _validate_date_assignments: the error of one assignment, "None" when it
\* passes.
DateAssignmentError(assignment, validate_availability, b) ==
    IF assignment.booking_id \notin DOMAIN b THEN "not found"
    ELSE IF ~b[assignment.booking_id].is_open_dates THEN "not an open-dates booking"
    ELSE IF assignment.check_in_date >= assignment.check_out_date
    THEN "invalid date range"
    ELSE IF validate_availability
            /\ ~CheckAccommodationAvailability(
                   b[assignment.booking_id].accommodation_id,
                   assignment.check_in_date, assignment.check_out_date,
                   assignment.booking_id, b)
    THEN "accommodation not available"
    ELSE NoneStr

\* _validate_date_assignments: the errors, in the order of the assignments.
ValidateDateAssignments(assignments, validate_availability, b) ==
    LET Pick(k) == [booking_id |-> assignments[k].booking_id,
                    error |-> DateAssignmentError(assignments[k],
                                                  validate_availability, b)]
    IN  SelectSeq([k \in 1 .. Len(assignments) |-> Pick(k)],
                  LAMBDA e : e.error # NoneStr)

\* bulk_set_booking_dates, lines 143-165: the BatchRequest.
SetDatesRequest(assignments, validate_availability, dry_run) ==
    [operations |->
        [k \in 1 .. Len(assignments) |->
            BatchOperationItem("booking_set_dates", assignments[k].booking_id,
                [check_in_date |-> assignments[k].check_in_date,
                 check_out_date |-> assignments[k].check_out_date,
                 validate_availability |-> validate_availability])],
     dry_run |-> dry_run, fail_fast |-> TRUE, parallel_execution |-> FALSE,
     enable_compensation |-> TRUE]

\* bulk_set_booking_dates
BulkSetBookingDates(p) ==
    /\ pc[p] = "service"
    /\ call[p].kind = "bulk_set_booking_dates"
    /\ LET validation_errors ==
               ValidateDateAssignments(call[p].assignments,
                                       call[p].validate_availability, bookings)
       IN  IF validation_errors # <<>>
           THEN RejectCall(p, validation_errors)
           ELSE CallProcessor(p, SetDatesRequest(call[p].assignments,
                                     call[p].validate_availability, call[p].dry_run))
    /\ UNCHANGED <<bookings, accommodations, call, tasks, operation_results,
                   saga_transaction, job_result, completion_order, pre>>

\* Variant of LacksFullPayment that accepts a partial payment: C19 must not
\* hold of it.
LacksFullPaymentAcceptingPartial(booking, require_full_payment) ==
    require_full_payment /\ booking.payment_status = "NOT_PAID"

\* bulk_confirm_bookings, lines 241-244:
\* operation.require_full_payment and booking.payment_status != PaymentStatus.PAID
LacksFullPayment(booking, require_full_payment) ==
    require_full_payment /\ booking.payment_status # "PAID"

\* bulk_confirm_bookings, lines 230-247: the error of one booking id, "None"
\* when it may be confirmed.
ConfirmationError(booking_id, require_full_payment, b) ==
    IF booking_id \notin DOMAIN b THEN "not found"
    ELSE IF b[booking_id].status # "PENDING" THEN "is not in PENDING status"
    ELSE IF LacksFullPayment(b[booking_id], require_full_payment)
    THEN "does not have full payment"
    ELSE NoneStr

\* bulk_confirm_bookings, lines 228-247: validation_errors, in the order of
\* booking_ids.
ValidateBookingsForConfirmation(booking_ids, require_full_payment, b) ==
    LET errors == [k \in 1 .. Len(booking_ids) |->
                      [booking_id |-> booking_ids[k],
                       error |-> ConfirmationError(booking_ids[k],
                                                   require_full_payment, b)]]
    IN  SelectSeq(errors, LAMBDA e : e.error # NoneStr)

\* bulk_confirm_bookings, lines 256-264, with the BatchRequest that
\* bulk_update_booking_status builds of the status_operation.
ConfirmationRequest(booking_ids, send_confirmation_emails, dry_run) ==
    [operations |->
        [k \in 1 .. Len(booking_ids) |->
            BatchOperationItem("booking_status_update", booking_ids[k],
                [new_status |-> BookingStatusValue("CONFIRMED"),
                 reason |-> "Bulk confirmation",
                 notify_clients |-> send_confirmation_emails])],
     dry_run |-> dry_run, fail_fast |-> TRUE, parallel_execution |-> FALSE,
     enable_compensation |-> TRUE]

\* bulk_confirm_bookings: its own validation, then bulk_update_booking_status
\* with new_status CONFIRMED (that method's validation and its call of the
\* processor).
BulkConfirmBookings(p) ==
    /\ pc[p] = "service"
    /\ call[p].kind = "bulk_confirm_bookings"
    /\ LET validation_errors ==
               ValidateBookingsForConfirmation(call[p].booking_ids,
                                               call[p].require_full_payment, bookings)
           status_errors ==
               ValidateBookingsForStatusUpdate(call[p].booking_ids, "CONFIRMED",
                                               bookings)
       IN  IF validation_errors # <<>>
           THEN RejectCall(p, validation_errors)
           ELSE IF status_errors # {}
           THEN RejectCall(p, status_errors)
           ELSE CallProcessor(p, ConfirmationRequest(call[p].booking_ids,
                                     call[p].send_confirmation_emails,
                                     call[p].dry_run))
    /\ UNCHANGED <<bookings, accommodations, call, tasks, operation_results,
                   saga_transaction, job_result, completion_order, pre>>

\* _find_available_accommodation: the accommodations with status AVAILABLE, of
\* the preferred types when some are given, that pass the availability check.
\* The query has no ORDER BY: any of them may be the first, and so the one
\* returned; None is returned when there is none.
FindAvailableAccommodation(check_in_date, check_out_date, preferred_types, b, a) ==
    LET found == {id \in DOMAIN a :
                     /\ a[id].status = "AVAILABLE"
                     /\ preferred_types # {} => a[id].type_id \in preferred_types
                     /\ CheckAccommodationAvailability(id, check_in_date,
                                                       check_out_date, NoId, b)}
    IN  IF found = {} THEN {NoId} ELSE found

\* bulk_assign_dates, lines 283-288: whether the accommodation of an assignment
\* is looked up.
AutoAssigned(assignment, auto_assign_accommodations) ==
    assignment.accommodation_id = NoId /\ auto_assign_accommodations

\* bulk_assign_dates, lines 277-294: the assignments, in order, for which the
\* lookup finds no accommodation.
AssignmentsWithoutAccommodation(c, b, a) ==
    {k \in 1 .. Len(c.assignments) :
        /\ AutoAssigned(c.assignments[k], c.auto_assign_accommodations)
        /\ FindAvailableAccommodation(c.assignments[k].check_in_date,
                                      c.assignments[k].check_out_date,
                                      c.preferred_accommodation_types, b, a) = {NoId}}

\* bulk_assign_dates, lines 296-303: the processed_assignments the loop may
\* build when every lookup finds an accommodation.
ProcessedAssignments(c, b, a) ==
    LET choices(k) ==
            IF AutoAssigned(c.assignments[k], c.auto_assign_accommodations)
            THEN FindAvailableAccommodation(c.assignments[k].check_in_date,
                     c.assignments[k].check_out_date,
                     c.preferred_accommodation_types, b, a)
            ELSE {c.assignments[k].accommodation_id}
        chosen == {f \in [1 .. Len(c.assignments) -> DOMAIN a \cup {NoId}] :
                      \A k \in 1 .. Len(c.assignments) : f[k] \in choices(k)}
    IN  {[k \in 1 .. Len(c.assignments) |->
             [c.assignments[k] EXCEPT !.accommodation_id = f[k]]] : f \in chosen}

\* bulk_assign_dates: the lookup of an accommodation for each assignment that
\* names none, HTTPException(400) for the first one without, then
\* bulk_set_booking_dates over the processed assignments (that method's
\* validation and its call of the processor).
BulkAssignDates(p) ==
    /\ pc[p] = "service"
    /\ call[p].kind = "bulk_assign_dates"
    /\ LET without == AssignmentsWithoutAccommodation(call[p], bookings, accommodations)
       IN  IF without # {}
           THEN LET k == CHOOSE first \in without : \A l \in without : first <= l
                IN  /\ pc' = [pc EXCEPT ![p] = "raised"]
                    /\ raised' = [raised EXCEPT ![p] =
                           [kind |-> "HTTPException",
                            text |-> "No available accommodation found",
                            errors |-> <<[booking_id |->
                                             call[p].assignments[k].booking_id,
                                         error |-> "no available accommodation"]>>]]
                    /\ UNCHANGED batch_request
           ELSE \E processed \in ProcessedAssignments(call[p], bookings, accommodations) :
                  LET validation_errors ==
                          ValidateDateAssignments(processed,
                              call[p].validate_accommodation_availability, bookings)
                  IN  IF validation_errors # <<>>
                      THEN RejectCall(p, validation_errors)
                      ELSE CallProcessor(p, SetDatesRequest(processed,
                               call[p].validate_accommodation_availability,
                               call[p].dry_run))
    /\ UNCHANGED <<bookings, accommodations, call, tasks, operation_results,
                   saga_transaction, job_result, completion_order, pre>>

(***************************************************************************)
(* Initial states: the store, and the call each process serves.            *)
(***************************************************************************)
BookingRow(status, payment_status, comments, check_in_date, check_out_date, accommodation_id) ==
    [status |-> status, payment_status |-> payment_status, comments |-> comments,
     check_in_date |-> check_in_date, check_out_date |-> check_out_date,
     is_open_dates |-> check_in_date = NoDate, accommodation_id |-> accommodation_id]

AccommodationRow(status, condition, type_id) ==
    [status |-> status, condition |-> condition, type_id |-> type_id]

\* A store with a PENDING open-dates booking that carries comments, and a
\* CONFIRMED booking with dates, both of accommodation 1.
SeedBookings ==
    (1 :> BookingRow("PENDING", "PAID", <<"late arrival">>, NoDate, NoDate, 1))
    @@ (2 :> BookingRow("CONFIRMED", "NOT_PAID", NoneText, 2, 4, 1))

SeedAccommodations == (1 :> AccommodationRow("AVAILABLE", "OK", 1))

\* The operations a submitted BatchRequest is made of.
OperationChoices ==
    {BatchOperationItem("booking_status_update", 1, [new_status |-> "confirmed"]),
     BatchOperationItem("booking_status_update", 2, [new_status |-> "no_such_status"]),
     BatchOperationItem("booking_cancel", 1, [cancellation_reason |-> "weather"]),
     BatchOperationItem("booking_set_dates", 2,
                        [check_in_date |-> 1, check_out_date |-> 3]),
     BatchOperationItem("accommodation_status_update", 1,
                        [new_status |-> "maintenance", new_condition |-> "minor"]),
     BatchOperationItem("booking_status_update", MissingId, [new_status |-> "confirmed"]),
     BatchOperationItem("booking_cancel", 2, EmptyDict),
     BatchOperationItem("client_update", 1, [name |-> "x"])}

OperationLists == UNION {[1 .. n -> OperationChoices] : n \in 1 .. MaxOps}

\* The operations of a request submitted for parallel execution: two that pass
\* validation and write the same booking.
ParallelOperationChoices ==
    {BatchOperationItem("booking_status_update", 1, [new_status |-> "confirmed"]),
     BatchOperationItem("booking_set_dates", 1,
                        [check_in_date |-> 1, check_out_date |-> 2])}

ParallelOperationLists ==
    UNION {[1 .. n -> ParallelOperationChoices] : n \in 1 .. MaxParallelOps}

\* BatchRequest(operations, dry_run, fail_fast, parallel_execution,
\* enable_compensation)
BatchRequests ==
    [operations : OperationLists, dry_run : BOOLEAN, fail_fast : BOOLEAN,
     parallel_execution : {FALSE}, enable_compensation : BOOLEAN]
    \cup
    [operations : ParallelOperationLists, dry_run : {FALSE}, fail_fast : BOOLEAN,
     parallel_execution : {TRUE}, enable_compensation : {TRUE}]

NoCall == [kind |-> "none"]

InitProcess ==
    /\ tasks = [p \in Procs |-> <<>>]
    /\ operation_results = [p \in Procs |-> <<>>]
    /\ saga_transaction = [p \in Procs |-> NewSagaTransaction]
    /\ job_result = [p \in Procs |-> NoneState]
    /\ raised = [p \in Procs |-> NoException]
    /\ completion_order = [p \in Procs |-> <<>>]
    /\ pre = [bookings |-> bookings, accommodations |-> accommodations]

\* POST /batch/execute: process 1 serves execute_batch(batch_request).
InitExecuteBatch ==
    /\ bookings = SeedBookings
    /\ accommodations = SeedAccommodations
    /\ \E request \in BatchRequests :
         /\ call = [p \in Procs |-> IF p = 1 THEN [kind |-> "execute_batch"] ELSE NoCall]
         /\ pc = [p \in Procs |-> IF p = 1 THEN "execute_batch" ELSE "idle"]
         /\ batch_request = [p \in Procs |-> IF p = 1 THEN request ELSE NoRequest]
    /\ InitProcess

\* The booking ids a service call names: existing ones and a missing one.
BookingIdLists == UNION {[1 .. n -> BookingIds \cup {MissingId}] : n \in 1 .. MaxIds}

\* The calls of the service: POST /batch/bookings/status-update and
\* POST /batch/bookings/cancel.
ServiceCalls ==
    [kind : {"bulk_update_booking_status"}, booking_ids : BookingIdLists,
     new_status : BookingStatus, dry_run : BOOLEAN]
    \cup
    [kind : {"bulk_cancel_bookings"}, booking_ids : BookingIdLists,
     cancellation_reason : {"weather"}, dry_run : BOOLEAN]

\* The stores a service call meets: the seed rows in any status.
ServiceBookings ==
    {[id \in BookingIds |-> [SeedBookings[id] EXCEPT !.status = st[id]]] :
        st \in [BookingIds -> BookingStatus]}

\* Process 1 serves a call of BatchOperationService.
InitService ==
    /\ bookings \in ServiceBookings
    /\ accommodations = SeedAccommodations
    /\ \E c \in ServiceCalls :
         /\ call = [p \in Procs |-> IF p = 1 THEN c ELSE NoCall]
         /\ pc = [p \in Procs |-> IF p = 1 THEN "service" ELSE "idle"]
         /\ batch_request = [p \in Procs |-> NoRequest]
    /\ InitProcess

\* The date ranges a date assignment asks for, around the [2, 4) of booking 2:
\* touching it before and after, overlapping it, and an empty range.
DateRanges == {<<1, 2>>, <<1, 3>>, <<3, 5>>, <<4, 5>>, <<3, 3>>}

\* {booking_id, check_in_date, check_out_date, accommodation_id?}
DateAssignment(booking_id, range, accommodation_id) ==
    [booking_id |-> booking_id, check_in_date |-> range[1],
     check_out_date |-> range[2], accommodation_id |-> accommodation_id]

\* The assignments of a call: the open-dates booking 1 with each range, the
\* dated booking 2 and a missing booking.
DateAssignmentChoices ==
    {DateAssignment(1, r, NoId) : r \in DateRanges}
    \cup {DateAssignment(2, <<1, 2>>, NoId), DateAssignment(MissingId, <<1, 2>>, NoId)}

DateAssignmentLists ==
    UNION {[1 .. n -> DateAssignmentChoices] : n \in 1 .. MaxAssignments}

\* POST /batch/bookings/set-dates
SetDatesCalls ==
    [kind : {"bulk_set_booking_dates"}, assignments : DateAssignmentLists,
     validate_availability : BOOLEAN, dry_run : BOOLEAN]

\* The stores a date assignment meets: the open-dates booking 1, PENDING or
\* CONFIRMED, and booking 2 of the same accommodation with dates [2, 4) in any
\* status.
DatedBookings ==
    {[SeedBookings EXCEPT ![1].status = st1, ![2].status = st2] :
        st1 \in {"PENDING", "CONFIRMED"}, st2 \in BookingStatus}

\* Process 1 serves a call of bulk_set_booking_dates.
InitSetDates ==
    /\ bookings \in DatedBookings
    /\ accommodations = SeedAccommodations
    /\ \E c \in SetDatesCalls :
         /\ call = [p \in Procs |-> IF p = 1 THEN c ELSE NoCall]
         /\ pc = [p \in Procs |-> IF p = 1 THEN "service" ELSE "idle"]
         /\ batch_request = [p \in Procs |-> NoRequest]
    /\ InitProcess

\* POST /batch/bookings/confirm
ConfirmCalls ==
    [kind : {"bulk_confirm_bookings"}, booking_ids : BookingIdLists,
     require_full_payment : BOOLEAN, send_confirmation_emails : {TRUE},
     dry_run : BOOLEAN]

\* The stores a confirmation meets: each booking pending or confirmed, paid in
\* full, in part or not at all.
ConfirmBookings ==
    {[id \in BookingIds |-> [SeedBookings[id] EXCEPT !.status = st[id],
                                                     !.payment_status = pay[id]]] :
        st \in [BookingIds -> {"PENDING", "CONFIRMED"}],
        pay \in [BookingIds -> PaymentStatus]}

\* Process 1 serves a call of bulk_confirm_bookings.
InitConfirm ==
    /\ bookings \in ConfirmBookings
    /\ accommodations = SeedAccommodations
    /\ \E c \in ConfirmCalls :
         /\ call = [p \in Procs |-> IF p = 1 THEN c ELSE NoCall]
         /\ pc = [p \in Procs |-> IF p = 1 THEN "service" ELSE "idle"]
         /\ batch_request = [p \in Procs |-> NoRequest]
    /\ InitProcess

\* The assignments of a date-assignment call: the open-dates booking 1 over a
\* range that overlaps the [2, 4) of booking 2 and over one that does not,
\* without and with an accommodation id, and a missing booking.
AssignDatesChoices ==
    {DateAssignment(1, <<1, 3>>, NoId), DateAssignment(1, <<4, 5>>, NoId),
     DateAssignment(1, <<1, 3>>, 1), DateAssignment(MissingId, <<1, 2>>, NoId)}

AssignDatesLists ==
    UNION {[1 .. n -> AssignDatesChoices] : n \in 1 .. MaxAssignments}

\* preferred_accommodation_types: None, the type of accommodation 1, another.
PreferredTypes == {{}, {1}, {2}}

\* POST /batch/bookings/assign-dates
AssignDatesCalls ==
    [kind : {"bulk_assign_dates"}, assignments : AssignDatesLists,
     validate_accommodation_availability : BOOLEAN,
     auto_assign_accommodations : BOOLEAN,
     preferred_accommodation_types : PreferredTypes, dry_run : BOOLEAN]

\* The stores a date-assignment call meets: booking 2 holds accommodation 1 on
\* [2, 4) as CONFIRMED or has been CANCELLED; accommodation 1 is AVAILABLE or
\* in MAINTENANCE.
AssignDatesBookings ==
    {[SeedBookings EXCEPT ![2].status = st] : st \in {"CONFIRMED", "CANCELLED"}}

AssignDatesAccommodations ==
    {[SeedAccommodations EXCEPT ![1].status = st] : st \in {"AVAILABLE", "MAINTENANCE"}}

\* Process 1 serves a call of bulk_assign_dates.
InitAssignDates ==
    /\ bookings \in AssignDatesBookings
    /\ accommodations \in AssignDatesAccommodations
    /\ \E c \in AssignDatesCalls :
         /\ call = [p \in Procs |-> IF p = 1 THEN c ELSE NoCall]
         /\ pc = [p \in Procs |-> IF p = 1 THEN "service" ELSE "idle"]
         /\ batch_request = [p \in Procs |-> NoRequest]
    /\ InitProcess

Init ==
    InitExecuteBatch \/ InitService \/ InitSetDates \/ InitConfirm \/ InitAssignDates

Next ==
    \E p \in Procs :
        \/ BulkUpdateBookingStatus(p)
        \/ BulkCancelBookings(p)
        \/ BulkSetBookingDates(p)
        \/ BulkConfirmBookings(p)
        \/ BulkAssignDates(p)
        \/ ExecuteBatchEnter(p)
        \/ \E i \in 1 .. Len(Ops(p)) : OpBegin(p, i)
        \/ \E i \in 1 .. Len(Ops(p)) : OpHandler(p, i)
        \/ Tally(p)
        \/ CompensateOne(p)
        \/ DryRunReturn(p)

Spec == Init /\ [][Next]_vars

\* Two calls of bulk_update_booking_status at the same time: each confirms or
\* cancels booking 1, alone or followed by booking 2.
ConcurrentCalls ==
    [kind : {"bulk_update_booking_status"}, booking_ids : {<<1>>, <<1, 2>>},
     new_status : {"CONFIRMED", "CANCELLED"}, dry_run : {FALSE}]

\* Both processes serve a call; booking 1 is PENDING, booking 2 CONFIRMED.
InitConcurrent ==
    /\ bookings = SeedBookings
    /\ accommodations = SeedAccommodations
    /\ call \in [Procs -> ConcurrentCalls]
    /\ pc = [p \in Procs |-> "service"]
    /\ batch_request = [p \in Procs |-> NoRequest]
    /\ InitProcess

\* The steps of two concurrent bulk status updates: any step of either call
\* may come between two steps of the other.
NextConcurrent ==
    \E p \in Procs :
        \/ BulkUpdateBookingStatus(p)
        \/ ExecuteBatchEnter(p)
        \/ \E i \in 1 .. Len(Ops(p)) : OpBegin(p, i)
        \/ \E i \in 1 .. Len(Ops(p)) : OpHandler(p, i)
        \/ Tally(p)
        \/ CompensateOne(p)

SpecConcurrent == InitConcurrent /\ [][NextConcurrent]_vars

\* One operation more than asyncio.Semaphore(5) admits at once.
WideBatchSize == SemaphoreLimit + 1

\* A request for parallel execution with more operations than the semaphore
\* admits at once: status updates of accommodation 1, the second operation a
\* status update of booking 2 that fails on its new_status.
WideBatchOperation(i) ==
    IF i = 2
    THEN BatchOperationItem("booking_status_update", 2,
                            [new_status |-> "no_such_status"])
    ELSE BatchOperationItem("accommodation_status_update", 1,
                            [new_status |-> "maintenance"])

WideBatchRequests ==
    [operations : {[i \in 1 .. WideBatchSize |-> WideBatchOperation(i)]},
     dry_run : {FALSE}, fail_fast : BOOLEAN, parallel_execution : {TRUE},
     enable_compensation : {TRUE}]

\* Process 1 serves execute_batch of a wide parallel request.
InitParallel ==
    /\ bookings = SeedBookings
    /\ accommodations = SeedAccommodations
    /\ \E request \in WideBatchRequests :
         /\ call = [p \in Procs |-> IF p = 1 THEN [kind |-> "execute_batch"] ELSE NoCall]
         /\ pc = [p \in Procs |-> IF p = 1 THEN "execute_batch" ELSE "idle"]
         /\ batch_request = [p \in Procs |-> IF p = 1 THEN request ELSE NoRequest]
    /\ InitProcess

NextParallel ==
    \E p \in Procs :
        \/ ExecuteBatchEnter(p)
        \/ \E i \in 1 .. Len(Ops(p)) : OpBegin(p, i)
        \/ \E i \in 1 .. Len(Ops(p)) : OpHandler(p, i)
        \/ Tally(p)
        \/ CompensateOne(p)

SpecParallel == InitParallel /\ [][NextParallel]_vars

\* The processor with exceptions that escape the executor.
NextWithEscape ==
    \/ Next
    \/ \E p \in Procs : ExecutionRaises(p)

SpecWithEscape == Init /\ [][NextWithEscape]_vars

(***************************************************************************)
(* Properties.                                                             *)
(***************************************************************************)
Results(p) == operation_results[p]
Compensations(p) == saga_transaction[p].compensation_operations

\* The handlers p's execute_batch has called, and the operations it has ended.
HandlerCalls(p) == {i \in 1 .. Len(tasks[p]) : tasks[p][i].calls > 0}
Ended(p) == {i \in 1 .. Len(tasks[p]) : tasks[p][i].pos = "done"}

\* No operation of p has entered _execute_single_operation.
NothingExecuted(p) ==
    /\ \A i \in 1 .. Len(tasks[p]) :
           tasks[p][i].pos = "pending" /\ tasks[p][i].calls = 0
    /\ Results(p) = <<>>

StoreUntouched == bookings = pre.bookings /\ accommodations = pre.accommodations

\* C1: with dry_run = true no stored field of any booking or accommodation
\* changes, and every operation result carries a null after_state.
C1_DryRunWritesNothing ==
    \A p \in Procs :
        batch_request[p].dry_run =>
            /\ StoreUntouched
            /\ \A k \in 1 .. Len(Results(p)) : Results(p)[k].after_state = NoneState
            /\ \A i \in Ended(p) : tasks[p][i].result.after_state = NoneState

\* A dry run has returned after the handlers of a cancellation and of a status
\* update of existing bookings ran and succeeded.
C1_Witness ==
    \E p \in Procs :
        /\ pc[p] = "returned" /\ batch_request[p].dry_run
        /\ job_result[p].dry_run
        /\ \E k, l \in 1 .. Len(Results(p)) :
               /\ Results(p)[k].success
               /\ Results(p)[k].operation_type = "booking_cancel"
               /\ Results(p)[k].target_id \in DOMAIN bookings
               /\ Results(p)[l].success
               /\ Results(p)[l].operation_type = "booking_status_update"
               /\ tasks[p][k].calls = 1 /\ tasks[p][l].calls = 1

\* No store call of p failed for a reason outside the engine (the store fault
\* the handlers and compensation handlers may meet).
NoStoreFault(p) ==
    /\ \A k \in 1 .. Len(Results(p)) : Results(p)[k].error_message # "store error"
    /\ \A j \in 1 .. Len(Compensations(p)) :
           Compensations(p)[j].error_message # "store error"

\* The entity a result is about holds its pre-batch values.
EntityRestored(r) ==
    IF r.operation_type \in BookingOperationTypes
    THEN bookings[r.target_id] = pre.bookings[r.target_id]
    ELSE accommodations[r.target_id] = pre.accommodations[r.target_id]

\* C2: compensation round-trip.  When a sequential, fail_fast, non-dry-run
\* batch whose last executed operation failed has returned, every entity an
\* earlier, successful operation targeted holds its pre-batch values, whatever
\* the operation types.  Stated for the runs in which no store call failed for
\* an outside reason.
C2_CompensationRoundTrip ==
    \A p \in Procs :
        /\ pc[p] = "returned"
        /\ ~batch_request[p].dry_run
        /\ batch_request[p].fail_fast
        /\ ~batch_request[p].parallel_execution
        /\ AnyFailed(Results(p))
        /\ NoStoreFault(p)
        => \A k \in 1 .. Len(Results(p)) :
               Results(p)[k].success => EntityRestored(Results(p)[k])

\* The operations the compensation operations are of, in the order of the list.
CompensatedOperations(p) ==
    [j \in 1 .. Len(Compensations(p)) |-> Compensations(p)[j].original_operation_id]

\* The compensation operations are attempted in the order of the list.
AttemptedInListOrder(p) ==
    \A j, k \in 1 .. Len(Compensations(p)) :
        j < k /\ Compensations(p)[k].status # "pending"
            => Compensations(p)[j].status # "pending"

\* C3: when compensation is triggered, the compensation operations are the
\* successful results in reverse completion order (most recent success first),
\* one per successful result and none for a failed one, and they are attempted
\* in that order.
C3_CompensationInReverseCompletionOrder ==
    \A p \in Procs :
        Compensations(p) # <<>> =>
            /\ CompensatedOperations(p) = Reverse(completion_order[p])
            /\ AttemptedInListOrder(p)

\* C3 in sequential execution, where the results list is in completion order.
C3_SequentialCompensationInReverseCompletionOrder ==
    \A p \in Procs :
        Compensations(p) # <<>> /\ ~batch_request[p].parallel_execution =>
            /\ CompensatedOperations(p) = Reverse(completion_order[p])
            /\ AttemptedInListOrder(p)

\* C4: in sequential execution with fail_fast = true, once an operation has
\* failed no later operation of the request is executed (no capture, no call of
\* its handler) and none appears in the results.
C4_FailFastStopsTheSequence ==
    \A p \in Procs :
        /\ batch_request[p].fail_fast
        /\ ~batch_request[p].parallel_execution
        /\ ~batch_request[p].dry_run
        => \A i, j \in 1 .. Len(tasks[p]) :
               /\ i < j
               /\ tasks[p][i].pos = "done"
               /\ ~tasks[p][i].result.success
               => /\ tasks[p][j].pos = "pending"
                  /\ tasks[p][j].calls = 0
                  /\ \A k \in 1 .. Len(Results(p)) : Results(p)[k].operation_id # j

\* A sequential fail_fast batch of three operations has returned with the
\* first operation successful, the second failed and the third never started.
C4_Witness ==
    \E p \in Procs :
        /\ pc[p] = "returned"
        /\ batch_request[p].fail_fast /\ ~batch_request[p].parallel_execution
        /\ ~batch_request[p].dry_run
        /\ Len(Ops(p)) = 3
        /\ Len(Results(p)) = 2
        /\ Results(p)[1].success /\ ~Results(p)[2].success
        /\ tasks[p][3].pos = "pending"
        /\ job_result[p].total_operations = 3

\* The transitions C5 permits, written out.
PermittedTransitions ==
    {<<"PENDING", "CONFIRMED">>, <<"PENDING", "CANCELLED">>,
     <<"CONFIRMED", "CHECKED_IN">>, <<"CONFIRMED", "CANCELLED">>,
     <<"CHECKED_IN", "CHECKED_OUT">>}

\* The ids of a bulk status update that do not exist or whose transition is
\* not permitted, by the store the call met.
StatusUpdateViolations(c) ==
    {id \in Range(c.booking_ids) :
        \/ id \notin DOMAIN pre.bookings
        \/ <<pre.bookings[id].status, c.new_status>> \notin PermittedTransitions}

\* The call of p was rejected by the service's validation.
Rejected(p) == pc[p] = "raised" /\ raised[p].kind = "HTTPException"

\* C5: a bulk status update with a target that does not exist or whose
\* transition current -> new is not permitted is rejected as a whole: every
\* violation is reported, no operation executes and no booking is mutated.  The
\* permitted transitions are exactly PENDING -> {CONFIRMED, CANCELLED},
\* CONFIRMED -> {CHECKED_IN, CANCELLED}, CHECKED_IN -> {CHECKED_OUT}; a request
\* with permitted transitions only is not rejected.
C5_BulkStatusUpdateRejectedAsAWhole ==
    \A p \in Procs :
        call[p].kind = "bulk_update_booking_status" /\ pc[p] # "service" =>
            IF StatusUpdateViolations(call[p]) # {}
            THEN /\ Rejected(p)
                 /\ {e.booking_id : e \in raised[p].errors}
                        = StatusUpdateViolations(call[p])
                 /\ Cardinality(raised[p].errors)
                        = Cardinality(StatusUpdateViolations(call[p]))
                 /\ NothingExecuted(p)
                 /\ tasks[p] = <<>>
                 /\ StoreUntouched
            ELSE pc[p] # "raised"

\* A bulk status update naming a missing id and a booking whose transition is
\* not permitted was rejected with the two violations.
C5_Witness ==
    \E p \in Procs :
        /\ call[p].kind = "bulk_update_booking_status"
        /\ Rejected(p)
        /\ Cardinality(raised[p].errors) = 2
        /\ \E e \in raised[p].errors : e.error = "not found"
        /\ \E e \in raised[p].errors : e.error = "invalid status transition"

\* An operation generic validation must refuse: empty parameters, or a target
\* that is no existing entity of the kind the operation type expects.
FailsGenericValidation(op) ==
    \/ DOMAIN op.parameters = {}
    \/ op.operation_type \in BookingOperationTypes
       /\ op.target_id \notin DOMAIN pre.bookings
    \/ op.operation_type = "accommodation_status_update"
       /\ op.target_id \notin DOMAIN pre.accommodations

\* C6: generic validation is fail-closed.  A non-dry-run batch with an
\* operation that has empty parameters or a target that does not exist raises
\* a processing error before any handler runs, and no entity is mutated.
C6_GenericValidationFailsClosed ==
    \A p \in Procs :
        /\ pc[p] \notin {"idle", "service", "execute_batch"}
        /\ ~batch_request[p].dry_run
        /\ \E i \in 1 .. Len(Ops(p)) : FailsGenericValidation(Ops(p)[i])
        => /\ pc[p] = "raised"
           /\ raised[p].kind = "BatchProcessorError"
           /\ \A i \in 1 .. Len(Ops(p)) :
                  FailsGenericValidation(Ops(p)[i]) =>
                      \E k \in 1 .. Len(raised[p].errors) :
                          raised[p].errors[k].operation_id = i
           /\ NothingExecuted(p)
           /\ job_result[p] = NoneState
           /\ StoreUntouched

\* A batch whose first operation is valid, with a later one without parameters
\* and one with a missing target, has raised with both errors.
C6_Witness ==
    \E p \in Procs :
        /\ pc[p] = "raised"
        /\ raised[p].kind = "BatchProcessorError"
        /\ ~FailsGenericValidation(Ops(p)[1])
        /\ Ops(p)[1].operation_type \in operation_handlers
        /\ \E k, l \in 1 .. Len(raised[p].errors) :
               /\ raised[p].errors[k].error_code = "MISSING_PARAMETERS"
               /\ raised[p].errors[l].error_code = "ENTITY_NOT_FOUND"

\* execute_batch of p is between its entry and its return.
Running(p) == pc[p] \in {"dry_run", "executing", "compensating"}

\* execute_batch of p can take its next step: the guards of OpBegin, OpHandler,
\* Tally, CompensateOne and DryRunReturn.
CanStep(p) ==
    \/ /\ pc[p] \in {"dry_run", "executing"}
       /\ \E i \in 1 .. Len(Ops(p)) :
              \/ tasks[p][i].pos = "pending" /\ MayStart(p, i)
              \/ tasks[p][i].pos = "captured"
    \/ pc[p] = "executing" /\ ExecutionEnded(p)
    \/ /\ pc[p] = "compensating"
       /\ \E j \in 1 .. Len(Compensations(p)) : Compensations(p)[j].status = "pending"
    \/ /\ pc[p] = "dry_run"
       /\ InFlight(p) = 0
       /\ Len(Results(p)) = Len(Ops(p))

\* CanStep is the enabling condition of the steps of execute_batch (an
\* invariant of Spec).
CanStepIsEnabled ==
    \A p \in Procs :
        CanStep(p) <=>
            ENABLED (\/ \E i \in 1 .. Len(Ops(p)) : OpBegin(p, i)
                     \/ \E i \in 1 .. Len(Ops(p)) : OpHandler(p, i)
                     \/ Tally(p)
                     \/ CompensateOne(p)
                     \/ DryRunReturn(p))

\* The result of operation i records an exception: its kind and its text.
RecordsException(r, i) ==
    /\ r.operation_id = i
    /\ ~r.success
    /\ r.status = "failed"
    /\ r.error_code \in {"ValueError", "DBAPIError", "BatchProcessorError"}
    /\ r.error_message # NoneStr

\* C7: execute_batch never raises for a per-operation failure.  An exception
\* of a handler is captured into the result of its operation (success = false,
\* error_code the kind of the exception, error_message its text), execute_batch
\* does not end with an exception once a handler was called, it can always go
\* on until it returns, and what it returns is a BatchJobResult holding the
\* failed result.
C7_OperationFailureIsCaptured ==
    \A p \in Procs :
        /\ pc[p] = "raised" => HandlerCalls(p) = {} /\ Ended(p) = {}
        /\ Running(p) => CanStep(p)
        /\ \A i \in Ended(p) :
               LET r == tasks[p][i].result
               IN  /\ r.success \/ RecordsException(r, i)
                   /\ Get(Ops(p)[i].parameters, "new_status", NoneStr) = "no_such_status"
                          => RecordsException(r, i) /\ r.error_code = "ValueError"
                   /\ pc[p] = "returned" =>
                          \E k \in 1 .. Len(Results(p)) : Results(p)[k] = r
        /\ pc[p] = "returned" =>
               /\ job_result[p] # NoneState
               /\ job_result[p].total_operations = Len(Ops(p))
               /\ raised[p] = NoException

\* A batch without fail_fast has returned a BatchJobResult with a result that
\* records the ValueError of a handler, a result that records a store error,
\* and a successful result.
C7_Witness ==
    \E p \in Procs :
        /\ pc[p] = "returned"
        /\ ~batch_request[p].dry_run
        /\ job_result[p].has_failures
        /\ \E k, l, m \in 1 .. Len(Results(p)) :
               /\ Results(p)[k].error_code = "ValueError"
               /\ tasks[p][k].calls = 1
               /\ Results(p)[l].error_code = "DBAPIError"
               /\ Results(p)[m].success

\* C8: in the compensation pass the failure of one compensation does not stop
\* the pass.  Every compensation operation is attempted exactly once and ends
\* COMPLETED or FAILED (with an error message) on its own; the pass goes on
\* while one is pending, and execute_batch returns with none pending.
C8_CompensationPassAttemptsEveryOperation ==
    \A p \in Procs :
        /\ \A j \in 1 .. Len(Compensations(p)) :
               LET c == Compensations(p)[j]
               IN  /\ c.attempts \in {0, 1}
                   /\ c.attempts = 0 <=> c.status = "pending"
                   /\ c.attempts = 1 <=> c.status \in {"completed", "failed"}
                   /\ c.status = "failed" <=> c.error_message # NoneStr
        /\ pc[p] = "compensating" =>
               \E j \in 1 .. Len(Compensations(p)) : Compensations(p)[j].status = "pending"
        /\ pc[p] = "returned" =>
               \A j \in 1 .. Len(Compensations(p)) : Compensations(p)[j].attempts = 1

\* A compensation pass has ended in which the first compensation operation
\* failed and the second was attempted after it.
C8_Witness ==
    \E p \in Procs :
        /\ pc[p] = "returned"
        /\ Len(Compensations(p)) = 2
        /\ Compensations(p)[1].status = "failed"
        /\ Compensations(p)[1].error_message # NoneStr
        /\ Compensations(p)[2].attempts = 1
        /\ job_result[p].compensation_summary.failed >= 1

\* The ids of a bulk cancellation that do not exist, and those of bookings
\* that are CANCELLED or CHECKED_OUT, by the store the call met.
MissingBookings(c) == Range(c.booking_ids) \ DOMAIN pre.bookings
ClosedBookings(c) ==
    {id \in Range(c.booking_ids) \cap DOMAIN pre.bookings :
        pre.bookings[id].status \in {"CANCELLED", "CHECKED_OUT"}}

\* C9: a bulk cancel with a target that does not exist or is already CANCELLED
\* or CHECKED_OUT is rejected at validation with nothing executed on any
\* target; a nonexistent id yields exactly one error, which names that id.
C9_BulkCancelRejectedAtValidation ==
    \A p \in Procs :
        /\ call[p].kind = "bulk_cancel_bookings"
        /\ pc[p] # "service"
        /\ MissingBookings(call[p]) \cup ClosedBookings(call[p]) # {}
        => /\ Rejected(p)
           /\ NothingExecuted(p)
           /\ tasks[p] = <<>>
           /\ StoreUntouched
           /\ \A id \in MissingBookings(call[p]) :
                  Cardinality({e \in raised[p].errors : e.booking_id = id}) = 1
           /\ \A id \in ClosedBookings(call[p]) :
                  \E e \in raised[p].errors : e.booking_id = id

\* A bulk cancel naming a missing id and a CHECKED_OUT booking was rejected
\* with one error for each.
C9_Witness ==
    \E p \in Procs :
        /\ call[p].kind = "bulk_cancel_bookings"
        /\ Rejected(p)
        /\ call[p].booking_ids = <<MissingId, 1>>
        /\ bookings[1].status = "CHECKED_OUT"
        /\ Cardinality(raised[p].errors) = 2
        /\ Cardinality({e \in raised[p].errors : e.booking_id = MissingId}) = 1

\* s is the beginning of t.
IsPrefix(s, t) == Len(s) <= Len(t) /\ SubSeq(t, 1, Len(s)) = s

\* C10: a cancel operation that succeeds sets the booking's status to CANCELLED
\* and appends the cancellation reason to the comments: the comments the
\* booking had before are still there afterwards, followed by the reason.
C10_CancelAppendsTheReason ==
    \A p \in Procs :
        \A k \in 1 .. Len(Results(p)) :
            LET r == Results(p)[k]
            IN  /\ r.success
                /\ r.operation_type = "booking_cancel"
                /\ ~batch_request[p].dry_run
                => /\ r.after_state.status = "cancelled"
                   /\ IsPrefix(r.before_state.comments, r.after_state.comments)
                   /\ r.after_state.comments[Len(r.after_state.comments)]
                          = Ops(p)[k].parameters.cancellation_reason

\* The overlap test of C12: another booking of the accommodation with assigned
\* dates [c, d), CONFIRMED or CHECKED_IN, with check_in < d and c < check_out.
AvailabilityConflict(accommodation_id, check_in, check_out, exclude_booking_id, b) ==
    \E id \in DOMAIN b :
        /\ id # exclude_booking_id
        /\ b[id].accommodation_id = accommodation_id
        /\ b[id].check_in_date # NoDate /\ b[id].check_out_date # NoDate
        /\ b[id].status \in {"CONFIRMED", "CHECKED_IN"}
        /\ check_in < b[id].check_out_date
        /\ b[id].check_in_date < check_out

\* An assignment of a set-dates call whose range overlaps a CONFIRMED or
\* CHECKED_IN dated booking of the target's accommodation, by the store the
\* call met.
OverlappingAssignments(c) ==
    {k \in 1 .. Len(c.assignments) :
        /\ c.assignments[k].booking_id \in DOMAIN pre.bookings
        /\ AvailabilityConflict(
               pre.bookings[c.assignments[k].booking_id].accommodation_id,
               c.assignments[k].check_in_date, c.assignments[k].check_out_date,
               c.assignments[k].booking_id, pre.bookings)}

\* C11: a bulk set-dates request with validate_availability = true whose range
\* overlaps an existing CONFIRMED (or CHECKED_IN) dated booking of the same
\* accommodation is rejected and no booking is changed; when no range overlaps
\* and the batch succeeded, each target booking holds requested dates and
\* is_open_dates = false.
C11_SetDatesRejectsOverlap ==
    \A p \in Procs :
        /\ call[p].kind = "bulk_set_booking_dates"
        /\ call[p].validate_availability
        /\ pc[p] # "service"
        => IF OverlappingAssignments(call[p]) # {}
           THEN Rejected(p) /\ StoreUntouched
           ELSE /\ pc[p] = "returned"
                /\ ~call[p].dry_run
                /\ ~AnyFailed(Results(p))
                => \A k \in 1 .. Len(call[p].assignments) :
                       LET id == call[p].assignments[k].booking_id
                       IN  /\ ~bookings[id].is_open_dates
                           /\ \E l \in 1 .. Len(call[p].assignments) :
                                  /\ call[p].assignments[l].booking_id = id
                                  /\ bookings[id].check_in_date
                                         = call[p].assignments[l].check_in_date
                                  /\ bookings[id].check_out_date
                                         = call[p].assignments[l].check_out_date

\* The assignments of a set-dates call that reach the availability check: the
\* booking exists, is an open-dates booking, the range is not empty, and the
\* call names the booking once.
CheckedAssignments(c) ==
    {k \in 1 .. Len(c.assignments) :
        /\ c.assignments[k].booking_id \in DOMAIN pre.bookings
        /\ pre.bookings[c.assignments[k].booking_id].is_open_dates
        /\ c.assignments[k].check_in_date < c.assignments[k].check_out_date
        /\ \A l \in 1 .. Len(c.assignments) :
               c.assignments[l].booking_id = c.assignments[k].booking_id => l = k}

\* The call of p was rejected with "not available" for booking id.
ReportedNotAvailable(p, id) ==
    /\ Rejected(p)
    /\ \E n \in 1 .. Len(raised[p].errors) :
           /\ raised[p].errors[n].booking_id = id
           /\ raised[p].errors[n].error = "accommodation not available"

\* C12: the availability check returns "not available" exactly when another
\* booking of the accommodation with assigned dates and status CONFIRMED or
\* CHECKED_IN overlaps the half-open range [check_in, check_out); ranges that
\* touch do not conflict, other statuses do not conflict, the excluded
\* booking does not conflict.  Stated of the check as bulk_set_booking_dates
\* applies it to each assignment, excluding the target booking.
C12_AvailabilityIsTheOverlapTest ==
    \A p \in Procs :
        /\ call[p].kind = "bulk_set_booking_dates"
        /\ call[p].validate_availability
        /\ pc[p] # "service"
        => \A k \in CheckedAssignments(call[p]) :
               LET a == call[p].assignments[k]
               IN  ReportedNotAvailable(p, a.booking_id)
                   <=> AvailabilityConflict(
                           pre.bookings[a.booking_id].accommodation_id,
                           a.check_in_date, a.check_out_date, a.booking_id,
                           pre.bookings)

\* The results of a returned call of execute_batch that was not a dry run.
ReturnedResults(p) == operation_results[p]

ReturnedNonDryRun(p) ==
    /\ pc[p] = "returned"
    /\ ~batch_request[p].dry_run

\* C13: the BatchJobResult of a non-dry-run call has status COMPLETED when no
\* operation failed, FAILED when some operation failed and none succeeded, and
\* COMPLETED when some failed and some succeeded.
C13_JobStatusFromCounts ==
    \A p \in Procs :
        ReturnedNonDryRun(p) =>
            LET failed == Cardinality({k \in 1 .. Len(ReturnedResults(p)) :
                                         ~ReturnedResults(p)[k].success})
                successful == Cardinality({k \in 1 .. Len(ReturnedResults(p)) :
                                             ReturnedResults(p)[k].success})
            IN  /\ job_result[p].failed_operations = failed
                /\ job_result[p].successful_operations = successful
                /\ failed = 0 => job_result[p].status = "completed"
                /\ failed > 0 /\ successful = 0 => job_result[p].status = "failed"
                /\ failed > 0 /\ successful > 0 =>
                       job_result[p].status = "completed"

\* A returned non-dry-run job with a failed and a successful operation.
C13_Witness ==
    \E p \in Procs :
        /\ ReturnedNonDryRun(p)
        /\ \E k \in 1 .. Len(ReturnedResults(p)) : ReturnedResults(p)[k].success
        /\ \E k \in 1 .. Len(ReturnedResults(p)) : ~ReturnedResults(p)[k].success
        /\ job_result[p].status = "completed"

\* The compensation operations of the call that ended as failed.
FailedCompensations(p) ==
    {j \in 1 .. Len(Compensations(p)) : Compensations(p)[j].status = "failed"}

\* C14: when compensation ran and at least one compensation operation failed,
\* the returned BatchJobResult has status FAILED and its compensation_summary
\* reports the numbers of successful and of failed compensations.
C14_FailedCompensationFailsTheJob ==
    \A p \in Procs :
        ReturnedNonDryRun(p) /\ FailedCompensations(p) # {} =>
            /\ job_result[p].status = "failed"
            /\ job_result[p].compensation_summary.required
            /\ job_result[p].compensation_summary.failed =
                   Cardinality(FailedCompensations(p))
            /\ job_result[p].compensation_summary.successful =
                   Len(Compensations(p)) - Cardinality(FailedCompensations(p))

\* The results of the call that belong to an operation whose type has no
\* registered forward handler.
UnregisteredResults(p) ==
    {k \in 1 .. Len(Results(p)) :
        Ops(p)[Results(p)[k].operation_id].operation_type \notin operation_handlers}

\* C15: an operation whose type has no registered forward handler never ends as
\* an ordinary failed BatchOperationResult inside a returned BatchJobResult:
\* once the single-operation executor has met such a type, execute_batch does
\* not return a result.
C15_UnregisteredTypeIsFatal ==
    \A p \in Procs :
        pc[p] = "returned" => UnregisteredResults(p) = {}

\* execute_batch has raised from its except branch.
RaisedFromExecution(p) ==
    /\ pc[p] = "raised"
    /\ raised[p].kind = "BatchProcessorError"
    /\ raised[p].text = "Batch execution failed"

\* The operations that completed successfully before the call ended.
SuccessfulOperations(p) == {i \in Ended(p) : tasks[p][i].result.success}

\* C16: when an exception escapes operation execution in a non-dry-run batch
\* with enable_compensation, execute_batch raises BatchProcessorError after a
\* compensation pass that holds one compensation operation, attempted, for
\* every operation that had completed successfully before the exception.
C16_EscapedExceptionCompensatesCompleted ==
    \A p \in Procs :
        RaisedFromExecution(p) /\ batch_request[p].enable_compensation =>
            \A i \in SuccessfulOperations(p) :
                \E j \in 1 .. Len(Compensations(p)) :
                    /\ Compensations(p)[j].original_operation_id = i
                    /\ Compensations(p)[j].status # "pending"

\* A call of execute_batch has ended: it returned a result or raised.
ExecuteBatchEnded(p) ==
    \/ pc[p] = "returned"
    \/ pc[p] = "raised" /\ raised[p].kind = "BatchProcessorError"

\* C17: when a call of execute_batch has ended, whatever its outcome (normal
\* return, fail-fast with compensation, dry run, validation failure, exception
\* path), its SagaTransaction has completed_at stamped and has been persisted
\* exactly once.
C17_SagaStampedAndPersistedOnce ==
    \A p \in Procs :
        ExecuteBatchEnded(p) =>
            /\ saga_transaction[p].completed_at
            /\ saga_transaction[p].persisted = 1

\* What holds instead: the saga of a call that entered the try block is stamped
\* and persisted exactly once, on return and on the exception path.
SagaStampedAndPersistedOnceAfterTry ==
    \A p \in Procs :
        /\ saga_transaction[p].persisted <= 1
        /\ ExecuteBatchEnded(p) /\ ~batch_request[p].dry_run
           /\ ~(pc[p] = "raised" /\ raised[p].text = "Batch validation failed") =>
               /\ saga_transaction[p].completed_at
               /\ saga_transaction[p].persisted = 1

\* execute_batch of p has been entered with a dry-run request.
InDryRunCall(p) ==
    /\ pc[p] \notin {"idle", "service", "execute_batch"}
    /\ raised[p].kind # "HTTPException"
    /\ batch_request[p].dry_run

ConfirmationViolations(c) ==
    {id \in Range(c.booking_ids) :
        \/ id \notin DOMAIN pre.bookings
        \/ pre.bookings[id].status # "PENDING"
        \/ c.require_full_payment /\ pre.bookings[id].payment_status # "PAID"}

\* C19: a bulk confirmation is rejected as a whole, with nothing executed and
\* nothing mutated, if a target is missing, is not PENDING, or lacks full
\* payment while require_full_payment is set.  Otherwise it is handed on as a
\* status update to CONFIRMED of exactly the named bookings, and when that batch
\* returns without a failed operation every target is CONFIRMED.
C19_BulkConfirmAllOrNothing ==
    \A p \in Procs :
        call[p].kind = "bulk_confirm_bookings" /\ pc[p] # "service" =>
            IF ConfirmationViolations(call[p]) # {}
            THEN /\ Rejected(p)
                 /\ {raised[p].errors[k].booking_id :
                        k \in 1 .. Len(raised[p].errors)}
                        = ConfirmationViolations(call[p])
                 /\ NothingExecuted(p)
                 /\ tasks[p] = <<>>
                 /\ StoreUntouched
            ELSE /\ pc[p] # "raised"
                 /\ Len(Ops(p)) = Len(call[p].booking_ids)
                 /\ \A k \in 1 .. Len(Ops(p)) :
                        /\ Ops(p)[k].operation_type = "booking_status_update"
                        /\ Ops(p)[k].target_id = call[p].booking_ids[k]
                        /\ Ops(p)[k].parameters.new_status = "confirmed"
                 /\ batch_request[p].dry_run = call[p].dry_run
                 /\ pc[p] = "returned" /\ ~call[p].dry_run
                    /\ job_result[p].failed_operations = 0 =>
                        \A id \in Range(call[p].booking_ids) :
                            bookings[id].status = "CONFIRMED"

\* A confirmation that requires full payment, of two pending and paid bookings,
\* has returned with both CONFIRMED.
C19_Witness ==
    \E p \in Procs :
        /\ call[p].kind = "bulk_confirm_bookings"
        /\ call[p].require_full_payment /\ ~call[p].dry_run
        /\ call[p].booking_ids = <<1, 2>>
        /\ pc[p] = "returned"
        /\ job_result[p].successful_operations = 2
        /\ \A id \in {1, 2} :
               /\ pre.bookings[id].status = "PENDING"
               /\ bookings[id].status = "CONFIRMED"

\* The accommodations C20 counts as free for an assignment: status AVAILABLE,
\* of a preferred type when types are given, and without a conflicting booking
\* by the overlap test of C12, in the store the call met.
FreeAccommodations(c, k) ==
    {id \in DOMAIN pre.accommodations :
        /\ pre.accommodations[id].status = "AVAILABLE"
        /\ c.preferred_accommodation_types # {} =>
               pre.accommodations[id].type_id \in c.preferred_accommodation_types
        /\ ~AvailabilityConflict(id, c.assignments[k].check_in_date,
                                 c.assignments[k].check_out_date, NoId, pre.bookings)}

\* The assignments of a call that name no accommodation and for which none is
\* free.
Unplaceable(c) ==
    {k \in 1 .. Len(c.assignments) :
        c.assignments[k].accommodation_id = NoId /\ FreeAccommodations(c, k) = {}}

\* The call of p failed for want of an accommodation, naming booking_id.
FailedWithoutAccommodation(p, booking_id) ==
    /\ Rejected(p)
    /\ raised[p].text = "No available accommodation found"
    /\ raised[p].errors[1].booking_id = booking_id

\* C20: a bulk date assignment with auto_assign_accommodations that holds an
\* assignment without accommodation id for which no AVAILABLE accommodation of
\* the preferred types passes the availability check fails as a whole, naming
\* the booking of such an assignment, and sets no date on any booking.
C20_AutoAssignFailsAsAWhole ==
    \A p \in Procs :
        /\ call[p].kind = "bulk_assign_dates" /\ pc[p] # "service"
        /\ call[p].auto_assign_accommodations
        /\ Unplaceable(call[p]) # {}
        => /\ \E k \in Unplaceable(call[p]) :
                  FailedWithoutAccommodation(p, call[p].assignments[k].booking_id)
           /\ NothingExecuted(p)
           /\ StoreUntouched

\* What holds instead: the call fails, naming the first such booking and
\* setting no date, when an assignment without accommodation id meets no
\* accommodation of status AVAILABLE among the preferred types.
AutoAssignFailsWithoutAvailableStatus ==
    \A p \in Procs :
        /\ call[p].kind = "bulk_assign_dates" /\ pc[p] # "service"
        /\ call[p].auto_assign_accommodations
        => LET c == call[p]
               without ==
                   {k \in 1 .. Len(c.assignments) :
                       /\ c.assignments[k].accommodation_id = NoId
                       /\ ~\E id \in DOMAIN pre.accommodations :
                              /\ pre.accommodations[id].status = "AVAILABLE"
                              /\ c.preferred_accommodation_types # {} =>
                                     pre.accommodations[id].type_id
                                         \in c.preferred_accommodation_types}
           IN  IF without = {}
               THEN ~(Rejected(p) /\ raised[p].text = "No available accommodation found")
               ELSE /\ \E k \in without :
                          /\ \A l \in without : k <= l
                          /\ FailedWithoutAccommodation(p, c.assignments[k].booking_id)
                    /\ NothingExecuted(p)
                    /\ StoreUntouched

\* The part of C14 that holds: the compensation_summary of a returned job
\* whose compensation ran reports the numbers of completed and of failed
\* compensation operations.
CompensationSummaryReportsCounts ==
    \A p \in Procs :
        ReturnedNonDryRun(p) /\ Compensations(p) # <<>> =>
            /\ job_result[p].compensation_summary.required
            /\ job_result[p].compensation_summary.failed =
                   Cardinality(FailedCompensations(p))
            /\ job_result[p].compensation_summary.successful =
                   Len(Compensations(p)) - Cardinality(FailedCompensations(p))

\* execute_batch of p runs, or has returned from, a sequential batch without
\* fail_fast that is not a dry run.
SequentialKeepGoing(p) ==
    /\ pc[p] \in {"executing", "compensating", "returned"}
    /\ ~batch_request[p].dry_run
    /\ ~batch_request[p].parallel_execution
    /\ ~batch_request[p].fail_fast

\* Results k and l are about the same row of the same table.
SameEntity(r, s) ==
    /\ r.target_id = s.target_id
    /\ (r.operation_type \in BookingOperationTypes)
           = (s.operation_type \in BookingOperationTypes)

\* C21: in sequential execution without fail_fast every operation is executed
\* exactly once, in list order, whatever failed before; one result per
\* operation is returned; no compensation is performed: compensated_operations
\* is 0 and the row of every successful operation holds what the last
\* successful operation on it wrote.
C21_SequentialWithoutFailFastRunsAll ==
    \A p \in Procs :
        SequentialKeepGoing(p) =>
            /\ pc[p] # "compensating"
            /\ Compensations(p) = <<>>
            /\ \A k \in 1 .. Len(Results(p)) : Results(p)[k].operation_id = k
            /\ \A i \in 1 .. Len(Ops(p)) :
                   /\ tasks[p][i].calls <= 1
                   /\ tasks[p][i].pos # "pending" => i <= Len(Results(p)) + 1
            /\ pc[p] = "returned" =>
                   /\ Len(Results(p)) = Len(Ops(p))
                   /\ \A i \in 1 .. Len(Ops(p)) :
                          tasks[p][i].pos = "done" /\ tasks[p][i].calls = 1
                   /\ job_result[p].compensated_operations = 0
                   /\ \A k \in 1 .. Len(Results(p)) :
                          /\ Results(p)[k].success
                          /\ \A l \in k + 1 .. Len(Results(p)) :
                                 ~(Results(p)[l].success
                                   /\ SameEntity(Results(p)[k], Results(p)[l]))
                          => Results(p)[k].after_state =
                                 CaptureEntityState(Ops(p)[k], bookings, accommodations)

\* A sequential batch without fail_fast has returned three results: the first
\* operation failed, the second confirmed booking 1 and booking 1 is still
\* CONFIRMED, the third failed.
C21_Witness ==
    \E p \in Procs :
        /\ SequentialKeepGoing(p) /\ pc[p] = "returned"
        /\ Len(Results(p)) = 3
        /\ ~Results(p)[1].success
        /\ Results(p)[2].success
        /\ Results(p)[2].operation_type = "booking_status_update"
        /\ Results(p)[2].target_id = 1
        /\ ~Results(p)[3].success
        /\ pre.bookings[1].status = "PENDING"
        /\ bookings[1].status = "CONFIRMED"
        /\ job_result[p].compensated_operations = 0

\* Operation i of p is a status update whose write was committed although the
\* transition from the status stored at the time of the write is not permitted.
IllegalWrite(p, i) ==
    /\ tasks[p][i].pos = "done"
    /\ tasks[p][i].result.success
    /\ Ops(p)[i].operation_type = "booking_status_update"
    /\ \A m \in BookingStatusOf(Ops(p)[i].parameters.new_status) :
           <<tasks[p][i].stored_status, m>> \notin PermittedTransitions

\* Another call than p has committed status st to the booking target_id.
CommittedByAnother(p, target_id, st) ==
    \E q \in Procs \ {p} :
        \E j \in 1 .. Len(tasks[q]) :
            /\ tasks[q][j].pos = "done"
            /\ tasks[q][j].result.success
            /\ Ops(q)[j].target_id = target_id
            /\ tasks[q][j].result.after_state.status = BookingStatusValue(st)

\* C22: batches are not coordinated per entity.  Of two concurrent bulk status
\* updates that the service validated, one can commit a status write that is
\* illegal with respect to the status stored at the time of the write; such a
\* write is always over the value the other batch committed after this batch's
\* validation, never the batch's own doing.
C22_IllegalWriteComesFromTheOtherBatch ==
    \A p \in Procs :
        \A i \in 1 .. Len(tasks[p]) :
            IllegalWrite(p, i) =>
                /\ tasks[p][i].stored_status # pre.bookings[Ops(p)[i].target_id].status
                /\ CommittedByAnother(p, Ops(p)[i].target_id, tasks[p][i].stored_status)

\* Both calls passed validation while booking 1 was PENDING; the one captured
\* before_state 'pending', the other cancelled the booking, and then the first
\* wrote CONFIRMED over CANCELLED: booking 1 is CONFIRMED.
C22_Witness ==
    \E p \in Procs :
        \E i \in 1 .. Len(tasks[p]) :
            /\ IllegalWrite(p, i)
            /\ Ops(p)[i].target_id = 1
            /\ tasks[p][i].result.before_state.status = "pending"
            /\ tasks[p][i].stored_status = "CANCELLED"
            /\ CommittedByAnother(p, 1, "CANCELLED")
            /\ bookings[1].status = "CONFIRMED"
            /\ pc[p] = "returned"

\* C23: when execute_batch returns from a non-dry-run batch, the status of the
\* SagaTransaction is FAILED exactly when fail_fast is set and an operation
\* failed, COMPLETED exactly when no operation failed, and PARTIALLY_COMPLETED
\* exactly when fail_fast is not set and the results hold a success and a
\* failure.
C23_SagaStatusOnReturn ==
    \A p \in Procs :
        ReturnedNonDryRun(p) =>
            LET failed == CountFailed(Results(p))
                successful == CountSuccess(Results(p))
                st == saga_transaction[p].status
            IN  /\ st = "failed" <=> batch_request[p].fail_fast /\ failed > 0
                /\ st = "completed" <=> failed = 0
                /\ st = "partially_completed" <=>
                       ~batch_request[p].fail_fast /\ successful > 0 /\ failed > 0

\* What holds instead: without fail_fast the status is PARTIALLY_COMPLETED
\* whenever an operation failed, also when none succeeded.
SagaStatusOnReturnAsCoded ==
    \A p \in Procs :
        ReturnedNonDryRun(p) =>
            LET failed == CountFailed(Results(p))
                st == saga_transaction[p].status
            IN  /\ st = "failed" <=> batch_request[p].fail_fast /\ failed > 0
                /\ st = "completed" <=> failed = 0
                /\ st = "partially_completed" <=>
                       ~batch_request[p].fail_fast /\ failed > 0

\* The operations of p that are inside the single-operation executor.
InsideExecutor(p) == {i \in 1 .. Len(tasks[p]) : tasks[p][i].pos = "captured"}

\* execute_batch of p runs, or has returned from, a parallel batch.
ParallelCall(p) ==
    /\ pc[p] \in {"executing", "compensating", "returned"}
    /\ batch_request[p].parallel_execution

\* C24: in parallel execution at most 5 operations of the batch are inside the
\* single-operation executor at any moment; every operation is executed
\* exactly once, with or without fail_fast and whatever failed (the batch can
\* always take a step until every task has ended); the returned results are in
\* request list order, a failed task being a failed result.
C24_ParallelExecutionIsCapped ==
    \A p \in Procs :
        ParallelCall(p) =>
            /\ Cardinality(InsideExecutor(p)) <= 5
            /\ \A i \in 1 .. Len(Ops(p)) : tasks[p][i].calls <= 1
            /\ pc[p] = "executing" => CanStep(p)
            /\ pc[p] # "executing" =>
                   /\ \A i \in 1 .. Len(Ops(p)) :
                          /\ tasks[p][i].pos = "done"
                          /\ tasks[p][i].calls = 1
                          /\ tasks[p][i].result.success
                             \/ RecordsException(tasks[p][i].result, i)
                   /\ Len(Results(p)) = Len(Ops(p))
                   /\ \A k \in 1 .. Len(Results(p)) :
                          /\ Results(p)[k] = tasks[p][k].result
                          /\ Results(p)[k].operation_id = k
                          /\ Results(p)[k].target_id = Ops(p)[k].target_id

\* Five operations of a fail_fast batch are inside the executor and the sixth
\* waits for the semaphore.
C24_Witness ==
    \E p \in Procs :
        /\ ParallelCall(p) /\ pc[p] = "executing"
        /\ batch_request[p].fail_fast
        /\ Cardinality(InsideExecutor(p)) = 5
        /\ \E i \in 1 .. Len(Ops(p)) :
               /\ tasks[p][i].pos = "pending"
               /\ ~MayStart(p, i)

\* C25: a successful accommodation status update whose parameters carry a
\* new_condition leaves the accommodation with that condition (and the new
\* status); without a new_condition the condition is as before.
C25_StatusUpdateSetsCondition ==
    \A p \in Procs :
        \A k \in 1 .. Len(Results(p)) :
            LET r == Results(p)[k]
                new_condition == Get(Ops(p)[r.operation_id].parameters,
                                     "new_condition", NoneStr)
            IN  /\ r.success
                /\ r.operation_type = "accommodation_status_update"
                /\ ~batch_request[p].dry_run
                => /\ r.after_state.status =
                          Ops(p)[r.operation_id].parameters.new_status
                   /\ r.after_state.condition =
                          IF new_condition # NoneStr THEN new_condition
                          ELSE r.before_state.condition

\* The part of C25 that holds: the status is set and the condition is never
\* changed.
StatusUpdateLeavesCondition ==
    \A p \in Procs :
        \A k \in 1 .. Len(Results(p)) :
            LET r == Results(p)[k]
            IN  /\ r.success
                /\ r.operation_type = "accommodation_status_update"
                /\ ~batch_request[p].dry_run
                => /\ r.after_state.status =
                          Ops(p)[r.operation_id].parameters.new_status
                   /\ r.after_state.condition = r.before_state.condition

\* C26: a batch submitted with enable_compensation = false never has a
\* CompensationOperation created and never enters a compensation pass, also
\* when fail_fast is set and an operation fails.
C26_CompensationDisabledMeansNone ==
    \A p \in Procs :
        pc[p] \in {"dry_run", "executing", "compensating", "returned", "raised"}
        /\ ~batch_request[p].enable_compensation
        => /\ pc[p] # "compensating"
           /\ Compensations(p) = <<>>

\* The part of C26 that holds: without fail_fast no compensation operation is
\* created, whatever enable_compensation says.
NoCompensationWithoutFailFast ==
    \A p \in Procs :
        ~batch_request[p].fail_fast =>
            pc[p] # "compensating" /\ Compensations(p) = <<>>

\* C27: in every BatchJobResult returned by execute_batch, dry run or not,
\* successful_operations and failed_operations are the numbers of results
\* with success true and false, has_failures says whether failed_operations is
\* positive, the two numbers add up to the number of results, which is at most
\* total_operations, and compensated_operations is the number of compensation
\* operations created.
C27_JobResultCounts ==
    \A p \in Procs :
        pc[p] = "returned" =>
            /\ job_result[p].successful_operations = CountSuccess(Results(p))
            /\ job_result[p].failed_operations = CountFailed(Results(p))
            /\ job_result[p].has_failures <=> job_result[p].failed_operations > 0
            /\ job_result[p].successful_operations + job_result[p].failed_operations
                   = Len(Results(p))
            /\ Len(Results(p)) <= job_result[p].total_operations
            /\ job_result[p].compensated_operations = Len(Compensations(p))

\* The part of C27 that holds: the counts of every result that is not a dry
\* run.
JobResultCountsWithoutDryRun ==
    \A p \in Procs :
        ReturnedNonDryRun(p) =>
            /\ job_result[p].successful_operations = CountSuccess(Results(p))
            /\ job_result[p].failed_operations = CountFailed(Results(p))
            /\ job_result[p].has_failures <=> job_result[p].failed_operations > 0
            /\ job_result[p].successful_operations + job_result[p].failed_operations
                   = Len(Results(p))
            /\ Len(Results(p)) <= job_result[p].total_operations
            /\ job_result[p].compensated_operations = Len(Compensations(p))

\* No two bookings of b with assigned dates and status CONFIRMED or CHECKED_IN
\* hold the same accommodation on overlapping ranges [check_in, check_out).
NoDoubleBooking(b) ==
    \A i, j \in DOMAIN b :
        /\ i # j
        /\ b[i].accommodation_id = b[j].accommodation_id
        /\ b[i].status \in {"CONFIRMED", "CHECKED_IN"}
        /\ b[j].status \in {"CONFIRMED", "CHECKED_IN"}
        /\ b[i].check_in_date # NoDate /\ b[i].check_out_date # NoDate
        /\ b[j].check_in_date # NoDate /\ b[j].check_out_date # NoDate
        => ~(b[i].check_in_date < b[j].check_out_date
             /\ b[j].check_in_date < b[i].check_out_date)

\* The call of p sets dates with availability validation enabled.
SetsDatesValidated(p) ==
    \/ call[p].kind = "bulk_set_booking_dates" /\ call[p].validate_availability
    \/ call[p].kind = "bulk_assign_dates"
       /\ call[p].validate_accommodation_availability

\* C28: no double booking through set-dates.  From a store without double
\* booking, after a bulk set-dates or bulk date-assignment request with
\* availability validation has completed, the store is still without double
\* booking.
C28_NoDoubleBookingThroughSetDates ==
    \A p \in Procs :
        /\ SetsDatesValidated(p)
        /\ pc[p] \in {"returned", "raised"}
        /\ NoDoubleBooking(pre.bookings)
        => NoDoubleBooking(bookings)

\* C29: in parallel execution with fail_fast and a failing operation, when the
\* batch has returned every entity a successful operation touched holds its
\* pre-batch values, under every interleaving of the tasks, and the
\* compensation operations are in the reverse of the order in which the
\* operations completed.  Stated for the runs in which no store call failed
\* for a reason outside the engine.
C29_ParallelCompensationRestores ==
    \A p \in Procs :
        /\ ParallelCall(p) /\ pc[p] = "returned"
        /\ batch_request[p].fail_fast
        /\ CountFailed(Results(p)) > 0
        /\ NoStoreFault(p)
        => /\ \A k \in 1 .. Len(Results(p)) :
                  Results(p)[k].success => EntityRestored(Results(p)[k])
           /\ [j \in 1 .. Len(Compensations(p)) |->
                  Compensations(p)[j].original_operation_id]
                  = Reverse(completion_order[p])

\* What holds instead: the compensation operations of a parallel batch are the
\* successful operations in reverse list order, one each, all attempted.
ParallelCompensationInReverseListOrder ==
    \A p \in Procs :
        /\ ParallelCall(p) /\ pc[p] = "returned"
        /\ batch_request[p].fail_fast
        /\ CountFailed(Results(p)) > 0
        => LET successful == SelectSeq(Results(p), LAMBDA r : r.success)
           IN  /\ [j \in 1 .. Len(Compensations(p)) |->
                      Compensations(p)[j].original_operation_id]
                      = Reverse([k \in 1 .. Len(successful) |->
                                    successful[k].operation_id])
               /\ \A j \in 1 .. Len(Compensations(p)) :
                      Compensations(p)[j].status # "pending"

\* execute_batch of p has returned from sequential execution (not a dry run).
ReturnedSequential(p) ==
    ReturnedNonDryRun(p) /\ ~batch_request[p].parallel_execution

\* The indices of the failed results of p.
FailedIndices(p) == {k \in 1 .. Len(Results(p)) : ~Results(p)[k].success}

\* C30: after sequential execution completed_operations of the SagaTransaction
\* is the ids of the successful operations in execution order, and
\* failed_operation_id is the id of the first operation that failed, unset
\* when none failed, also in a batch without fail_fast with several failures.
C30_SagaRecordsFirstFailure ==
    \A p \in Procs :
        ReturnedSequential(p) =>
            LET successful == SelectSeq(Results(p), LAMBDA r : r.success)
            IN  /\ saga_transaction[p].completed_operations =
                       [k \in 1 .. Len(successful) |-> successful[k].operation_id]
                /\ saga_transaction[p].failed_operation_id =
                       IF FailedIndices(p) = {} THEN NoOperation
                       ELSE Results(p)[CHOOSE k \in FailedIndices(p) :
                                \A l \in FailedIndices(p) : k <= l].operation_id

\* What holds instead: failed_operation_id is the id of the last operation
\* that failed.
SagaRecordsLastFailure ==
    \A p \in Procs :
        ReturnedSequential(p) =>
            LET successful == SelectSeq(Results(p), LAMBDA r : r.success)
            IN  /\ saga_transaction[p].completed_operations =
                       [k \in 1 .. Len(successful) |-> successful[k].operation_id]
                /\ saga_transaction[p].failed_operation_id =
                       IF FailedIndices(p) = {} THEN NoOperation
                       ELSE Results(p)[CHOOSE k \in FailedIndices(p) :
                                \A l \in FailedIndices(p) : l <= k].operation_id

=============================================================================
